---- MODULE Spec2Model ----
(***************************************************************************)
(* Model of the rpass server: the per-connection session state machine,    *)
(* the login handshake, the callbacks registered in the request dispatcher *)
(* and the storage with its username -> Weak<UserStorage> cache.           *)
(*                                                                         *)
(* Strings are sequences of one-character strings, so that the text level  *)
(* helpers (strip_quotes, is_safe_for_filename, Key::from_str) are         *)
(* computed the way the code computes them.                                *)
(***************************************************************************)
EXTENDS Integers, Sequences, FiniteSets, TLC

\* Number of simultaneously accepted connections (one thread each).
NConns == 2

Conns == 1..NConns

\* name.len() > 32 in is_safe_for_filename
MaxNameLen == 32

-----------------------------------------------------------------------------
(* Text helpers *)

EmptyString == <<>>

Quote == "\""

\* The characters the modelled requests are written with.
AsciiAlphabetic == {"a", "b", "e", "k", "p", "u", "y"}
AsciiDigit == {"1"}
AsciiAlphanumeric == AsciiAlphabetic \cup AsciiDigit

\* Tokens as ARGUMENTS_REGEX captures them (group 1), before strip_quotes:
\* a run of non-blank non-quote characters or a quoted span.
RawTokens ==
    { <<"a">>, <<"b">>, <<"1", ":", "1">>, <<Quote, Quote>> }

strip_quotes(s) ==
    IF Len(s) >= 2 /\ s[1] = Quote /\ s[Len(s)] = Quote
    THEN SubSeq(s, 2, Len(s) - 1)
    ELSE s

is_contains_two_dots(s) ==
    \E i \in 1..(Len(s) - 1) : s[i] = "." /\ s[i + 1] = "."

\* A character outside ASCII, two bytes long in UTF-8 (as the letters of
\* the name in utils.rs tests::test).
NonAscii == "U+0411"

\* str::len: the length in bytes.
RECURSIVE len(_)
len(s) ==
    IF s = <<>> THEN 0
    ELSE (IF Head(s) = NonAscii THEN 2 ELSE 1) + len(Tail(s))

\* is_safe_for_filename that accepts a name of any length.
is_safe_for_filename_any_length(name) ==
    ~ (   name = EmptyString
       \/ ~ (\A i \in 1..Len(name) :
                name[i] \in AsciiAlphanumeric \/ name[i] \in {".", "@", "_"})
       \/ ~ (\E i \in 1..Len(name) : name[i] \in AsciiAlphabetic)
       \/ is_contains_two_dots(name)
       \/ name[1] \in {".", "@", "_"}
       \/ name[Len(name)] \in {".", "@", "_"} )

is_safe_for_filename(name) ==
    ~ (   name = EmptyString
       \/ ~ (\A i \in 1..Len(name) :
                name[i] \in AsciiAlphanumeric \/ name[i] \in {".", "@", "_"})
       \/ ~ (\E i \in 1..Len(name) : name[i] \in AsciiAlphabetic)
       \/ is_contains_two_dots(name)
       \/ name[1] \in {".", "@", "_"}
       \/ name[Len(name)] \in {".", "@", "_"}
       \/ len(name) > MaxNameLen )

\* Key::from_str succeeds: "<digits>:<digits>", both parts non-empty.
KeyFromStrOk(s) ==
    \E i \in 1..Len(s) :
        /\ s[i] = ":"
        /\ \A j \in 1..(i - 1) : s[j] /= ":"
        /\ i > 1 /\ i < Len(s)
        /\ \A j \in (1..Len(s)) \ {i} : s[j] \in AsciiDigit

\* Key::encrypt and Key::decrypt return their argument (s.to_owned()).
Encrypt(key, s) == s
Decrypt(key, s) == s

\* The values thread_rng().sample_iter(&Alphanumeric) can produce, shortened
\* to one character each; a random string is never empty.
RandStrings == { <<"a">>, <<"b">> }

\* The arguments a callback receives: every captured token with its quotes
\* stripped (RequestDispatcher::dispatch).
Stripped(raw) == [i \in 1..Len(raw) |-> strip_quotes(raw[i])]

KeyToken == <<"1", ":", "1">>
ContentToken == <<Quote, "a", "\n", "b", Quote>>

\* Argument lists of the requests: none, one token, and the two-token
\* lists of register and new_record.
ArgLists ==
    {<<>>} \cup { <<t>> : t \in RawTokens }

NewRecordArgLists ==
    { <<>>, <<<<"a">> >>, <<<<"a">>, ContentToken>>,
      <<KeyToken, ContentToken>>, <<<<"a">>, <<"b">> >> }

RecordArgLists ==
    { <<>>, <<<<"a">> >>, <<KeyToken>> }

\* Names that can be directories below the storage directory.
UserNames ==
    { strip_quotes(t) :
        t \in { r \in RawTokens : is_safe_for_filename(strip_quotes(r)) } }

\* Keys of username_to_user_storage: the user names and the empty name,
\* for which path.join("") is the storage directory itself.
CacheKeys == UserNames \cup {EmptyString}

-----------------------------------------------------------------------------
(* Sessions *)

\* user_storage of a session that holds no Arc; a cache key without entry.
NoStore == 0

\* A Weak whose UserStorage has been dropped (strong_count() = 0).
Dead == -1

\* Allocations of Arc<RwLock<UserStorage>>: every live one is held by a
\* session, and one more can always be made.
StoreIds == 1..(NConns + 1)

DefaultUnauthorized ==
    [state |-> "Unauthorized", username |-> EmptyString,
     login_confirmation |-> EmptyString, user_storage |-> NoStore]

AuthorizedSession(u, id) ==
    [state |-> "Authorized", username |-> u,
     login_confirmation |-> EmptyString, user_storage |-> id]

\* The session object after its thread left handle_requests.
DroppedSession ==
    [state |-> "Dropped", username |-> EmptyString,
     login_confirmation |-> EmptyString, user_storage |-> NoStore]

VARIABLES
    harness,    \* "server": sessions live in Server::handle_requests;
                \* "unit": the callbacks are called directly on a session
    session,    \* session[c]: the Session of connection c
    pc,         \* pc[c]: "serving" | "delete_me" | "closed" | "panicked"
    dm_username,\* delete_me's local `username` while pc[c] = "delete_me"
    username_to_user_storage, \* Storage::username_to_user_storage
    root,       \* the storage directory exists
    dirs,       \* the user directories below it
    files,      \* files[d]: the record files in directory d
    poisoned,   \* the RwLock<Storage> is poisoned
    text,       \* the text or byte string a text-level function is applied to
    result,     \* what the function returned
    net_in,     \* bytes the peer has written that the server has not read
    net_out,    \* frames the server has written that the peer has not read
    peer        \* the other end of the connection

vars == <<harness, session, pc, dm_username, username_to_user_storage,
          root, dirs, files, poisoned, text, result, net_in, net_out, peer>>

\* The storage as the callbacks see it behind the lock.
Storage ==
    [cache |-> username_to_user_storage, root |-> root, dirs |-> dirs,
     files |-> files]

-----------------------------------------------------------------------------
(* Storage *)

\* self.path.join(username) exists and is a directory
PathExists(st, u) == st.root /\ (u = EmptyString \/ u \in st.dirs)

\* Weak::strong_count(): the Arcs are held by the Authorized sessions.
StrongCount(sess, id) ==
    IF id \in StoreIds
    THEN Cardinality({ c \in Conns : sess[c].user_storage = id })
    ELSE 0

\* Arc::new: an allocation no Arc refers to.
FreshStore(sess) ==
    CHOOSE id \in StoreIds :
        /\ \A c \in Conns : sess[c].user_storage /= id
        /\ \A j \in StoreIds :
              (j < id) => \E c \in Conns : sess[c].user_storage = j

\* get_user_storage without the upgrade of the Weak in the map.
get_user_storage_no_upgrade(st, sess, u) ==
    IF ~ PathExists(st, u)
    THEN [res |-> "UserDoesNotExist", id |-> NoStore, st |-> st]
    ELSE LET id == FreshStore(sess)
         IN  [res |-> "Ok", id |-> id,
              st |-> [st EXCEPT !.cache[u] = id]]

\* UserStorage::new: the directory exists (its key.pub is written with it).
get_user_storage(st, sess, u) ==
    IF st.cache[u] /= NoStore /\ StrongCount(sess, st.cache[u]) > 0
    THEN [res |-> "Ok", id |-> st.cache[u], st |-> st]
    ELSE IF ~ PathExists(st, u)
    THEN [res |-> "UserDoesNotExist", id |-> NoStore, st |-> st]
    ELSE LET id == FreshStore(sess)
         IN  [res |-> "Ok", id |-> id,
              st |-> [st EXCEPT !.cache[u] = id]]

\* fs::remove_dir_all(self.path.join(username)): with the empty username
\* the path is the storage directory.
delete_user(st, sess, u) ==
    IF st.cache[u] /= NoStore /\ StrongCount(sess, st.cache[u]) > 0
    THEN [res |-> "UnsupportedActionForMultiSession", st |-> st]
    ELSE LET st1 == [st EXCEPT !.cache[u] = NoStore]
             remove_dir_all ==
                 IF u = EmptyString
                 THEN [st1 EXCEPT !.root = FALSE, !.dirs = {},
                                  !.files = [d \in CacheKeys |-> {}]]
                 ELSE [st1 EXCEPT !.dirs = @ \ {u}, !.files[u] = {}]
         IN  IF PathExists(st1, u)
             THEN [res |-> "Ok", st |-> remove_dir_all]
             ELSE [res |-> "Io", st |-> st1]

\* fs::create_dir fails when the entry exists (as a directory or as a file
\* of the storage directory) or when the storage directory is gone.
add_new_user(st, u) ==
    IF st.root /\ u /= EmptyString /\ u \notin st.dirs
       /\ u \notin st.files[EmptyString]
    THEN [res |-> "Ok", st |-> [st EXCEPT !.dirs = @ \cup {u}]]
    ELSE [res |-> "UserAlreadyExists", st |-> st]

get_user_pub_key(st, u) ==
    IF PathExists(st, u) THEN "Ok" ELSE "UserDoesNotExist"

\* write_record that writes the file into every user's directory.
write_record_everywhere(st, u, resource) ==
    IF ~ PathExists(st, u) \/ (u = EmptyString /\ resource \in st.dirs)
    THEN [res |-> "Io", st |-> st]
    ELSE [res |-> "Ok",
          st |-> [st EXCEPT !.files = [d \in CacheKeys |->
                                          @[d] \cup {resource}]]]

\* UserStorage::write_record: fs::write(self.path.join(resource), ..)
write_record(st, u, resource) ==
    IF ~ PathExists(st, u) \/ (u = EmptyString /\ resource \in st.dirs)
    THEN [res |-> "Io", st |-> st]
    ELSE [res |-> "Ok", st |-> [st EXCEPT !.files[u] = @ \cup {resource}]]

\* UserStorage::get_record: fs::read_to_string(self.path.join(resource))
get_record(st, u, resource) ==
    IF resource \in st.files[u] THEN "Ok" ELSE "Io"

\* UserStorage::list_records: fs::read_dir(self.path)
user_list_records(st, u) ==
    IF PathExists(st, u) THEN "Ok" ELSE "Io"

\* UserStorage::delete_record: removes the record file
user_delete_record(st, u, resource) ==
    IF resource \in st.files[u]
    THEN [res |-> "Ok", st |-> [st EXCEPT !.files[u] = @ \ {resource}]]
    ELSE [res |-> "Io", st |-> st]

-----------------------------------------------------------------------------
(* Callbacks.  Each returns the response, the session it leaves behind and   *)
(* the storage it leaves behind; res = "panic" is an unwinding thread.       *)

Out(res, s, st) == [res |-> res, session |-> s, st |-> st]

register(st, psn, s, args) ==
    IF Len(args) < 1 THEN Out("EmptyUsername", s, st)
    ELSE IF ~ is_safe_for_filename(args[1])
    THEN Out("InvalidUsername", s, st)
    ELSE IF Len(args) < 2 THEN Out("EmptyKey", s, st)
    ELSE IF ~ KeyFromStrOk(args[2]) THEN Out("InvalidKey", s, st)
    ELSE IF psn THEN Out("panic", s, st)
    ELSE LET a == add_new_user(st, args[1])
         IN  Out(a.res, s, a.st)

\* login that leaves the Arc of the session it replaces in place.
login_keeps_handle(st, psn, s, args, rand_string) ==
    IF Len(args) < 1 THEN Out("EmptyUsername", s, st)
    ELSE IF ~ is_safe_for_filename(args[1])
    THEN Out("InvalidUsername", s, st)
    ELSE IF psn THEN Out("panic", s, st)
    ELSE IF get_user_pub_key(st, args[1]) /= "Ok"
    THEN Out("UserDoesNotExist", s, st)
    ELSE Out("Ok",
             [state |-> "Unauthorized", username |-> args[1],
              login_confirmation |-> Encrypt(args[1], rand_string),
              user_storage |-> s.user_storage],
             st)

login(st, psn, s, args, rand_string) ==
    IF Len(args) < 1 THEN Out("EmptyUsername", s, st)
    ELSE IF ~ is_safe_for_filename(args[1])
    THEN Out("InvalidUsername", s, st)
    ELSE IF psn THEN Out("panic", s, st)
    ELSE IF get_user_pub_key(st, args[1]) /= "Ok"
    THEN Out("UserDoesNotExist", s, st)
    ELSE Out("Ok",
             [state |-> "Unauthorized", username |-> args[1],
              login_confirmation |-> Encrypt(args[1], rand_string),
              user_storage |-> NoStore],
             st)

\* confirm_login that replaces the session before get_user_storage has
\* answered.
confirm_login_session_first(st, psn, sess, c, args) ==
    LET s == sess[c] IN
    IF s.state /= "Unauthorized"
    THEN Out("UnacceptableRequestAtThisState", s, st)
    ELSE IF Len(args) < 1 THEN Out("EmptyConfirmationString", s, st)
    ELSE IF psn THEN Out("panic", s, st)
    ELSE IF Decrypt("sec_key", args[1]) /= s.login_confirmation
    THEN Out("InvalidConfirmationString", s, st)
    ELSE LET g == get_user_storage(st, sess, s.username)
         IN  IF g.res /= "Ok"
             THEN Out(g.res, AuthorizedSession(s.username, NoStore), st)
             ELSE Out("Ok", AuthorizedSession(s.username, g.id), g.st)

confirm_login(st, psn, sess, c, args) ==
    LET s == sess[c] IN
    IF s.state /= "Unauthorized"
    THEN Out("UnacceptableRequestAtThisState", s, st)
    ELSE IF Len(args) < 1 THEN Out("EmptyConfirmationString", s, st)
    ELSE IF psn THEN Out("panic", s, st)
    ELSE IF Decrypt("sec_key", args[1]) /= s.login_confirmation
    THEN Out("InvalidConfirmationString", s, st)
    ELSE LET g == get_user_storage(st, sess, s.username)
         IN  IF g.res /= "Ok"
             THEN Out(g.res, s, st)
             ELSE Out("Ok", AuthorizedSession(s.username, g.id), g.st)

\* delete_me that returns the error of delete_user without restoring the
\* session.
delete_me_locked_no_restore(st, psn, sess, c, username) ==
    IF psn THEN Out("panic", sess[c], st)
    ELSE LET d == delete_user(st, sess, username)
         IN  Out(d.res, sess[c], d.st)

\* delete_me from storage.write() on; the session was reset before it.
delete_me_locked(st, psn, sess, c, username) ==
    IF psn THEN Out("panic", sess[c], st)
    ELSE LET d == delete_user(st, sess, username)
         IN  IF d.res = "Ok"
             THEN Out("Ok", sess[c], d.st)
             ELSE LET g == get_user_storage(d.st, sess, username)
                  IN  IF g.res /= "Ok"
                      THEN Out("panic", sess[c], d.st)
                      ELSE Out(d.res, AuthorizedSession(username, g.id), g.st)

\* quit that marks the session ended without replacing it, so that an
\* Authorized session keeps its Arc.
quit_keeps_handle(st, s) ==
    IF s.state = "Ended"
    THEN Out("UnacceptableRequestAtThisState", s, st)
    ELSE Out("Ok", [s EXCEPT !.state = "Ended"], st)

quit(st, s) ==
    IF s.state = "Ended"
    THEN Out("UnacceptableRequestAtThisState", s, st)
    ELSE Out("Ok", [DefaultUnauthorized EXCEPT !.state = "Ended"], st)

\* Record::from_str: split_once('\n')
RecordFromStrOk(content) == \E i \in 1..Len(content) : content[i] = "\n"

\* new_record without the check of the session state.
new_record_unchecked(st, s, args) ==
    IF Len(args) < 1 THEN Out("EmptyResourceName", s, st)
    ELSE IF ~ is_safe_for_filename(args[1])
    THEN Out("InvalidResourceName", s, st)
    ELSE IF Len(args) < 2 THEN Out("EmptyRecordContent", s, st)
    ELSE IF ~ RecordFromStrOk(args[2]) THEN Out("InvalidRecordFormat", s, st)
    ELSE LET w == write_record(st, s.username, args[1])
         IN  Out(w.res, s, w.st)

new_record(st, s, args) ==
    IF s.state /= "Authorized"
    THEN Out("UnacceptableRequestAtThisState", s, st)
    ELSE IF Len(args) < 1 THEN Out("EmptyResourceName", s, st)
    ELSE IF ~ is_safe_for_filename(args[1])
    THEN Out("InvalidResourceName", s, st)
    ELSE IF Len(args) < 2 THEN Out("EmptyRecordContent", s, st)
    ELSE IF ~ RecordFromStrOk(args[2]) THEN Out("InvalidRecordFormat", s, st)
    ELSE LET w == write_record(st, s.username, args[1])
         IN  Out(w.res, s, w.st)

show_record(st, s, args) ==
    IF s.state /= "Authorized"
    THEN Out("UnacceptableRequestAtThisState", s, st)
    ELSE IF Len(args) < 1 THEN Out("EmptyResourceName", s, st)
    ELSE IF ~ is_safe_for_filename(args[1])
    THEN Out("InvalidResourceName", s, st)
    ELSE Out(get_record(st, s.username, args[1]), s, st)

list_records(st, s) ==
    IF s.state /= "Authorized"
    THEN Out("UnacceptableRequestAtThisState", s, st)
    ELSE Out(user_list_records(st, s.username), s, st)

delete_record(st, s, args) ==
    IF s.state /= "Authorized"
    THEN Out("UnacceptableRequestAtThisState", s, st)
    ELSE IF Len(args) < 1 THEN Out("EmptyResourceName", s, st)
    ELSE IF ~ is_safe_for_filename(args[1])
    THEN Out("InvalidResourceName", s, st)
    ELSE LET d == user_delete_record(st, s.username, args[1])
         IN  Out(d.res, s, d.st)

-----------------------------------------------------------------------------
(* The connection loop *)

\* What the map holds once the sessions are `sess`: a Weak whose last Arc
\* was dropped only reports strong_count() = 0.
SetStore(sess, st) ==
    /\ session' = sess
    /\ username_to_user_storage' =
          [u \in CacheKeys |->
              IF st.cache[u] \in StoreIds
                 /\ StrongCount(sess, st.cache[u]) = 0
              THEN Dead ELSE st.cache[u]]
    /\ root' = st.root
    /\ dirs' = st.dirs
    /\ files' = st.files

\* A step of the callbacks alone: no text-level function is applied and the
\* bytes on the wire are not looked at.
SetState(sess, st) ==
    /\ SetStore(sess, st)
    /\ UNCHANGED <<text, result, net_in, net_out, peer>>

\* A pass in which a session with a pending challenge keeps that challenge
\* when the callback leaves an Unauthorized session.
Serve_keeps_challenge(c, out) ==
    /\ IF out.res = "panic"
       THEN /\ SetState([session EXCEPT ![c] = DroppedSession], out.st)
            /\ pc' = [pc EXCEPT ![c] = "panicked"]
       ELSE /\ SetState([session EXCEPT ![c] =
                           IF /\ out.session.state = "Unauthorized"
                              /\ session[c].state = "Unauthorized"
                              /\ session[c].login_confirmation /= EmptyString
                           THEN [out.session EXCEPT !.login_confirmation =
                                     session[c].login_confirmation]
                           ELSE out.session],
                     out.st)
            /\ pc' = [pc EXCEPT ![c] =
                        IF harness = "server" /\ out.session.state = "Ended"
                        THEN "closed" ELSE "serving"]
    /\ dm_username' = [dm_username EXCEPT ![c] = EmptyString]
    /\ UNCHANGED harness

\* One pass of the loop of handle_requests around a callback that returned
\* `out`: the response is written and the loop condition is tested; a
\* panicking callback unwinds the thread, which drops the session.
Serve(c, out) ==
    /\ IF out.res = "panic"
       THEN /\ SetState([session EXCEPT ![c] = DroppedSession], out.st)
            /\ pc' = [pc EXCEPT ![c] = "panicked"]
       ELSE /\ SetState([session EXCEPT ![c] = out.session], out.st)
            /\ pc' = [pc EXCEPT ![c] =
                        IF harness = "server" /\ out.session.state = "Ended"
                        THEN "closed" ELSE "serving"]
    /\ dm_username' = [dm_username EXCEPT ![c] = EmptyString]
    /\ UNCHANGED harness

\* Storage::new on an existing storage directory without users.
InitStorage ==
    /\ username_to_user_storage = [u \in CacheKeys |-> NoStore]
    /\ root = TRUE
    /\ dirs = {}
    /\ files = [d \in CacheKeys |-> {}]

NoResult == [op |-> "none", arg |-> <<>>, out |-> <<>>]

InitNoText == text = <<>> /\ result = NoResult

InitNoWire == net_in = <<>> /\ net_out = <<>> /\ peer = "none"

InitCommon ==
    /\ session = [c \in Conns |-> DefaultUnauthorized]
    /\ pc = [c \in Conns |-> "serving"]
    /\ dm_username = [c \in Conns |-> EmptyString]
    /\ InitStorage
    /\ poisoned = FALSE
    /\ InitNoText
    /\ InitNoWire

Init == harness = "server" /\ InitCommon

InitUnit == harness = "unit" /\ InitCommon

Register(c) ==
    /\ pc[c] = "serving"
    /\ \E raw \in { <<>>, <<KeyToken>>, <<<<"a">> >>,
                    <<<<"a">>, KeyToken>>, <<<<"b">>, KeyToken>>,
                    <<<<"a">>, <<"a">> >> } :
         Serve(c, register(Storage, poisoned, session[c], Stripped(raw)))
    /\ UNCHANGED poisoned

Login(c) ==
    /\ pc[c] = "serving"
    /\ \E raw \in ArgLists, rand_string \in RandStrings :
         Serve(c, login(Storage, poisoned, session[c], Stripped(raw),
                        rand_string))
    /\ UNCHANGED poisoned

ConfirmLogin(c) ==
    /\ pc[c] = "serving"
    /\ \E raw \in ArgLists :
         Serve(c, confirm_login(Storage, poisoned, session, c, Stripped(raw)))
    /\ UNCHANGED poisoned

\* delete_me up to storage.write(): the state check and the reset of the
\* session, which drops its Arc<RwLock<UserStorage>>.
delete_me_begin(s) ==
    IF s.state /= "Authorized"
    THEN [res |-> "UnacceptableRequestAtThisState", session |-> s,
          username |-> EmptyString]
    ELSE [res |-> "continue", session |-> DefaultUnauthorized,
          username |-> s.username]

DeleteMeBegin(c) ==
    /\ pc[c] = "serving"
    /\ LET b == delete_me_begin(session[c])
       IN  IF b.res /= "continue"
           THEN Serve(c, Out(b.res, b.session, Storage))
           ELSE /\ SetState([session EXCEPT ![c] = b.session], Storage)
                /\ dm_username' = [dm_username EXCEPT ![c] = b.username]
                /\ pc' = [pc EXCEPT ![c] = "delete_me"]
                /\ UNCHANGED harness
    /\ UNCHANGED poisoned

\* delete_me whose panic leaves the storage lock as it was.
DeleteMeLocked_lock_released(c) ==
    /\ pc[c] = "delete_me"
    /\ LET o == delete_me_locked(Storage, poisoned, session, c, dm_username[c])
       IN  /\ Serve(c, o)
           /\ poisoned' = poisoned

DeleteMeLocked(c) ==
    /\ pc[c] = "delete_me"
    /\ LET o == delete_me_locked(Storage, poisoned, session, c, dm_username[c])
       IN  /\ Serve(c, o)
           /\ poisoned' = (poisoned \/ (~ poisoned /\ o.res = "panic"))

Quit(c) ==
    /\ pc[c] = "serving"
    /\ Serve(c, quit(Storage, session[c]))
    /\ UNCHANGED poisoned

NewRecord(c) ==
    /\ pc[c] = "serving"
    /\ \E raw \in NewRecordArgLists :
         Serve(c, new_record(Storage, session[c], Stripped(raw)))
    /\ UNCHANGED poisoned

ShowRecord(c) ==
    /\ pc[c] = "serving"
    /\ \E raw \in RecordArgLists :
         Serve(c, show_record(Storage, session[c], Stripped(raw)))
    /\ UNCHANGED poisoned

ListRecords(c) ==
    /\ pc[c] = "serving"
    /\ Serve(c, list_records(Storage, session[c]))
    /\ UNCHANGED poisoned

DeleteRecord(c) ==
    /\ pc[c] = "serving"
    /\ \E raw \in RecordArgLists :
         Serve(c, delete_record(Storage, session[c], Stripped(raw)))
    /\ UNCHANGED poisoned

\* The peer closes the connection: the loop of handle_requests is left and
\* the session is dropped with whatever it holds.
Disconnect(c) ==
    /\ pc[c] = "serving"
    /\ SetState([session EXCEPT ![c] = DroppedSession], Storage)
    /\ pc' = [pc EXCEPT ![c] = "closed"]
    /\ UNCHANGED <<harness, dm_username, poisoned>>

\* Server::run accepts the next connection: a thread with a new session.
Accept(c) ==
    /\ pc[c] \in {"closed", "panicked"}
    /\ SetState([session EXCEPT ![c] = DefaultUnauthorized], Storage)
    /\ pc' = [pc EXCEPT ![c] = "serving"]
    /\ UNCHANGED <<harness, dm_username, poisoned>>

Next ==
    \E c \in Conns :
        \/ Register(c)
        \/ Login(c)
        \/ ConfirmLogin(c)
        \/ DeleteMeBegin(c)
        \/ DeleteMeLocked(c)
        \/ Quit(c)
        \/ NewRecord(c)
        \/ ShowRecord(c)
        \/ ListRecords(c)
        \/ DeleteRecord(c)
        \/ Disconnect(c)
        \/ Accept(c)

Spec == Init /\ [][Next]_vars

\* The callbacks called directly on sessions, as the tests of the callbacks
\* call them: no loop ends a session and no connection is accepted.
SpecUnit ==
    /\ InitUnit
    /\ [][ \E c \in Conns :
               \/ Register(c)
               \/ Login(c)
               \/ ConfirmLogin(c)
               \/ DeleteMeBegin(c)
               \/ DeleteMeLocked(c)
               \/ Quit(c)
               \/ NewRecord(c)
               \/ ShowRecord(c)
               \/ ListRecords(c)
               \/ DeleteRecord(c) ]_vars

-----------------------------------------------------------------------------
(* Framing and tokenizing.  A byte string is a sequence of one-byte strings. *)

\* Longest text the text-level functions are applied to.
MaxTextLen == 4

\* The byte 0x04 that ends a frame.
EOT == "EOT"

CRLF == <<"\r", "\n">>

\* A byte that occurs in no UTF-8 text.
InvalidByte == "0x80"

\* \s of the regex and the characters str::trim removes.
Whitespace == {" ", "\t", "\n", "\r"}

ends_with(s, suffix) ==
    /\ Len(s) >= Len(suffix)
    /\ SubSeq(s, Len(s) - Len(suffix) + 1, Len(s)) = suffix

starts_with(s, prefix) ==
    /\ Len(s) >= Len(prefix)
    /\ SubSeq(s, 1, Len(prefix)) = prefix

\* String::from_utf8 succeeds
from_utf8_ok(bytes) == \A i \in 1..Len(bytes) : bytes[i] /= InvalidByte

\* make_request that looks for the terminator only at the end of the text.
make_request_checks_last(request) ==
    IF Len(request) > 0 /\ request[Len(request)] = EOT
    THEN [res |-> "InvalidRequest", bytes |-> <<>>]
    ELSE [res |-> "Ok",
          bytes |-> (IF ends_with(request, CRLF) THEN request
                     ELSE request \o CRLF) \o <<EOT>>]

make_request(request) ==
    IF \E i \in 1..Len(request) : request[i] = EOT
    THEN [res |-> "InvalidRequest", bytes |-> <<>>]
    ELSE [res |-> "Ok",
          bytes |-> (IF ends_with(request, CRLF) THEN request
                     ELSE request \o CRLF) \o <<EOT>>]

\* writer.write_all(&make_request(request)?): `writer` is what was written.
write_request(writer, request) ==
    LET m == make_request(request)
    IN  IF m.res /= "Ok"
        THEN [res |-> m.res, writer |-> writer]
        ELSE [res |-> "Ok", writer |-> writer \o m.bytes]

\* BufRead::read_until on a reader that delivers `reader` and then reaches
\* the end of the stream: the bytes up to and including the first `byte`,
\* or all of them.
read_until(reader, byte) ==
    IF \E i \in 1..Len(reader) : reader[i] = byte
    THEN LET i == CHOOSE k \in 1..Len(reader) :
                     /\ reader[k] = byte
                     /\ \A j \in 1..(k - 1) : reader[j] /= byte
         IN  SubSeq(reader, 1, i)
    ELSE reader

\* read_response that returns the text with its "\r\n".
read_response_keeps_crlf(reader) ==
    LET buf == read_until(reader, EOT)
        size == Len(buf)
        popped == IF size > 0 /\ buf[size] = EOT
                  THEN SubSeq(buf, 1, size - 1) ELSE buf
    IN  IF size = 0 THEN [res |-> "Ok", text |-> <<>>]
        ELSE IF ~ from_utf8_ok(popped)
        THEN [res |-> "InvalidResponseEncoding", text |-> <<>>]
        ELSE [res |-> "Ok", text |-> popped]

read_response(reader) ==
    LET buf == read_until(reader, EOT)
        size == Len(buf)
        popped == IF size > 0 /\ buf[size] = EOT
                  THEN SubSeq(buf, 1, size - 1) ELSE buf
    IN  IF size = 0 THEN [res |-> "Ok", text |-> <<>>]
        ELSE IF ~ from_utf8_ok(popped)
        THEN [res |-> "InvalidResponseEncoding", text |-> <<>>]
        ELSE IF ends_with(popped, CRLF)
        THEN [res |-> "Ok", text |-> SubSeq(popped, 1, Len(popped) - 2)]
        ELSE [res |-> "Ok", text |-> popped]

\* Server::read_request_bytes: buf.pop() after read_until, whatever the last
\* byte is.
read_request_bytes(reader) ==
    LET buf == read_until(reader, EOT)
    IN  IF Len(buf) = 0 THEN buf ELSE SubSeq(buf, 1, Len(buf) - 1)

\* str::trim
RECURSIVE trim_start(_)
trim_start(s) ==
    IF Len(s) > 0 /\ s[1] \in Whitespace THEN trim_start(Tail(s)) ELSE s

RECURSIVE trim_end(_)
trim_end(s) ==
    IF Len(s) > 0 /\ s[Len(s)] \in Whitespace
    THEN trim_end(SubSeq(s, 1, Len(s) - 1)) ELSE s

trim(s) == trim_end(trim_start(s))

\* ARGUMENTS_REGEX.captures_iter(request), group 1 of every match from
\* position i on.  A match starts at the first position where
\* [^\s"]+ or ".*?" matches: a word character, or a quote with a later
\* quote (the lazy .*? stops at the nearest one).  The blanks that \s?+
\* takes after the capture and the positions where nothing matches are
\* not part of a capture.
RECURSIVE captures_iter(_, _)
captures_iter(s, i) ==
    IF i > Len(s) THEN <<>>
    ELSE IF s[i] \notin Whitespace /\ s[i] /= Quote
    THEN LET e == CHOOSE n \in i..Len(s) :
                 /\ \A m \in i..n : s[m] \notin Whitespace /\ s[m] /= Quote
                 /\ (n = Len(s)
                     \/ s[n + 1] \in Whitespace \/ s[n + 1] = Quote)
         IN  <<SubSeq(s, i, e)>> \o captures_iter(s, e + 1)
    ELSE IF s[i] = Quote /\ \E n \in (i + 1)..Len(s) : s[n] = Quote
    THEN LET e == CHOOSE n \in (i + 1)..Len(s) :
                      /\ s[n] = Quote
                      /\ \A m \in (i + 1)..(n - 1) : s[m] /= Quote
         IN  <<SubSeq(s, i, e)>> \o captures_iter(s, e + 1)
    ELSE captures_iter(s, i + 1)

\* The tokens without strip_quotes.
Tokenize_unstripped(request) == captures_iter(request, 1)

\* The iterator of dispatch: .map(|x| strip_quotes(&x[1]).to_owned())
Tokenize(request) == Stripped(captures_iter(request, 1))

-----------------------------------------------------------------------------
(* The request dispatcher *)

\* The commands build_request_dispatcher registers.
REGISTER == <<"r", "e", "g", "i", "s", "t", "e", "r">>
LOGIN == <<"l", "o", "g", "i", "n">>
CONFIRM_LOGIN == <<"c", "o", "n", "f", "i", "r", "m", "_", "l", "o", "g", "i", "n">>
DELETE_ME == <<"d", "e", "l", "e", "t", "e", "_", "m", "e">>
QUIT == <<"q", "u", "i", "t">>
NEW_RECORD == <<"n", "e", "w", "_", "r", "e", "c", "o", "r", "d">>
SHOW_RECORD == <<"s", "h", "o", "w", "_", "r", "e", "c", "o", "r", "d">>
LIST_RECORDS == <<"l", "i", "s", "t", "_", "r", "e", "c", "o", "r", "d", "s">>
DELETE_RECORD == <<"d", "e", "l", "e", "t", "e", "_", "r", "e", "c", "o", "r", "d">>

Commands ==
    { REGISTER, LOGIN, CONFIRM_LOGIN, DELETE_ME, QUIT, NEW_RECORD,
      SHOW_RECORD, LIST_RECORDS, DELETE_RECORD }

\* delete_me as one call: nothing else runs between the reset of the
\* session and storage.write().
delete_me(st, psn, sess, c) ==
    LET b == delete_me_begin(sess[c])
    IN  IF b.res /= "continue"
        THEN Out(b.res, b.session, st)
        ELSE delete_me_locked(st, psn, [sess EXCEPT ![c] = b.session], c,
                              b.username)

\* What dispatch returns, with the command an UndefinedCommand carries.
DispatchOut(o, command) ==
    [res |-> o.res, session |-> o.session, st |-> o.st, command |-> command]

\* dispatch under which a command that is not registered counts as no
\* command.
dispatch_unknown_as_none(st, psn, sess, c, request, rand_string) ==
    LET tokens == Tokenize(request)
        command == tokens[1]
        args == Tail(tokens)
        s == sess[c]
    IN  IF tokens = <<>>
        THEN DispatchOut(Out("NoCommandProvided", s, st), <<>>)
        ELSE IF command = REGISTER
        THEN DispatchOut(register(st, psn, s, args), command)
        ELSE IF command = LOGIN
        THEN DispatchOut(login(st, psn, s, args, rand_string), command)
        ELSE IF command = CONFIRM_LOGIN
        THEN DispatchOut(confirm_login(st, psn, sess, c, args), command)
        ELSE IF command = DELETE_ME
        THEN DispatchOut(delete_me(st, psn, sess, c), command)
        ELSE IF command = QUIT
        THEN DispatchOut(quit(st, s), command)
        ELSE IF command = NEW_RECORD
        THEN DispatchOut(new_record(st, s, args), command)
        ELSE IF command = SHOW_RECORD
        THEN DispatchOut(show_record(st, s, args), command)
        ELSE IF command = LIST_RECORDS
        THEN DispatchOut(list_records(st, s), command)
        ELSE IF command = DELETE_RECORD
        THEN DispatchOut(delete_record(st, s, args), command)
        ELSE DispatchOut(Out("NoCommandProvided", s, st), <<>>)

\* RequestDispatcher::dispatch
dispatch(st, psn, sess, c, request, rand_string) ==
    LET tokens == Tokenize(request)
        command == tokens[1]
        args == Tail(tokens)
        s == sess[c]
    IN  IF tokens = <<>>
        THEN DispatchOut(Out("NoCommandProvided", s, st), <<>>)
        ELSE IF command = REGISTER
        THEN DispatchOut(register(st, psn, s, args), command)
        ELSE IF command = LOGIN
        THEN DispatchOut(login(st, psn, s, args, rand_string), command)
        ELSE IF command = CONFIRM_LOGIN
        THEN DispatchOut(confirm_login(st, psn, sess, c, args), command)
        ELSE IF command = DELETE_ME
        THEN DispatchOut(delete_me(st, psn, sess, c), command)
        ELSE IF command = QUIT
        THEN DispatchOut(quit(st, s), command)
        ELSE IF command = NEW_RECORD
        THEN DispatchOut(new_record(st, s, args), command)
        ELSE IF command = SHOW_RECORD
        THEN DispatchOut(show_record(st, s, args), command)
        ELSE IF command = LIST_RECORDS
        THEN DispatchOut(list_records(st, s), command)
        ELSE IF command = DELETE_RECORD
        THEN DispatchOut(delete_record(st, s, args), command)
        ELSE DispatchOut(Out("UndefinedCommand", s, st), command)

-----------------------------------------------------------------------------
(* The text-level functions applied to every short text *)

\* `cmd "a b" c`
ExampleRequest ==
    <<"c", "m", "d", " ", Quote, "a", " ", "b", Quote, " ", "c">>

\* The connection the text-level functions and the wire belong to.
W == 1

\* The texts are made of the bytes that matter to framing and tokenizing.
InitText ==
    /\ harness = "unit"
    /\ session = [c \in Conns |-> DefaultUnauthorized]
    /\ pc = [c \in Conns |-> "serving"]
    /\ dm_username = [c \in Conns |-> EmptyString]
    /\ InitStorage
    /\ poisoned = FALSE
    /\ InitNoWire
    /\ LET TextAlphabet == {"a", " ", Quote, "\r", "\n", EOT, InvalidByte}
       IN  text \in UNION { [1..n -> TextAlphabet] : n \in 0..MaxTextLen }
                      \cup {ExampleRequest}
    /\ result = NoResult

Apply(op, arg, out) ==
    /\ result.op = "none"
    /\ result' = [op |-> op, arg |-> arg, out |-> out]
    /\ UNCHANGED <<harness, session, pc, dm_username,
                   username_to_user_storage, root, dirs, files, poisoned,
                   text, net_in, net_out, peer>>

\* The functions, each applied to `text`: write_request on a writer nothing
\* was written to (a request is a String); read_response and
\* read_request_bytes on a reader that delivers the bytes of `text`;
\* read_response on what make_request produced; Tokenize; dispatch on the
\* text behind the start of a request.
SpecText ==
    /\ InitText
    /\ [][ \/ /\ from_utf8_ok(text)
              /\ Apply("write_request", text, write_request(<<>>, text))
           \/ Apply("read_response", text, read_response(text))
           \/ Apply("read_request_bytes", text, read_request_bytes(text))
           \/ /\ from_utf8_ok(text)
              /\ make_request(text).res = "Ok"
              /\ Apply("round_trip", text,
                       read_response(make_request(text).bytes))
           \/ /\ from_utf8_ok(text)
              /\ Apply("tokenize", text, Tokenize(text))
           \/ /\ from_utf8_ok(text)
              /\ \E prefix \in { <<>>, QUIT, LIST_RECORDS \o <<" ">>,
                                 REGISTER \o <<" ">> },
                    rand_string \in RandStrings :
                   Apply("dispatch", prefix \o text,
                         dispatch(Storage, poisoned, session, W,
                                  prefix \o text, rand_string)) ]_vars

-----------------------------------------------------------------------------
(* One connection on the wire: Server::handle_requests and its peer *)

\* Requests in flight towards the server, and responses the peer has not
\* read yet (what the socket buffers hold).
MaxPending == 2
MaxUnread == 1

\* A loop condition that never sees the end of the session.
is_ended_never(s) == FALSE

\* Session::is_ended
is_ended(s) == s.state = "Ended"

\* Server::pub_key: storage.pub_key().to_string(), "<n>:<e>".
PubKey == KeyToken

ErrorPrefix == <<"E", "r", "r", "o", "r", ":", " ">>
OkText == <<"O", "k">>

response_to_bytes(response) == response \o <<EOT>>

\* send_storage_key that writes the key without "\r\n" and terminator.
send_storage_key_bare(pub_key) == pub_key

\* The bytes send_storage_key hands to write_all.
send_storage_key(pub_key) == response_to_bytes(pub_key \o CRLF)

\* The text of a Result<String>.  The String a callback returned in Ok is
\* the encrypted challenge for login and "Ok" for register, confirm_login,
\* delete_me, quit and new_record; the Display of an error is one symbol
\* followed by what it carries.
ResponseText(o) ==
    IF o.res = "Ok"
    THEN IF o.command = LOGIN
         THEN Encrypt(o.session.username, o.session.login_confirmation)
         ELSE OkText
    ELSE IF o.res = "UndefinedCommand"
    THEN ErrorPrefix \o <<o.res>> \o o.command \o CRLF
    ELSE ErrorPrefix \o <<o.res>> \o CRLF

\* Server::dispatch_request: the outcome of dispatch and the response text.
dispatch_request(st, psn, sess, c, request, rand_string) ==
    LET Written(o, response) ==
            [o |-> o,
             response |-> IF ends_with(response, CRLF) THEN response
                          ELSE response \o CRLF]
        Respond(o) == Written(o, ResponseText(o))
    IN  Respond(dispatch(st, psn, sess, c, request, rand_string))

\* The match on String::from_utf8(bytes) in handle_requests.
request_response(st, psn, sess, c, bytes, rand_string) ==
    IF from_utf8_ok(bytes)
    THEN dispatch_request(st, psn, sess, c, trim(bytes), rand_string)
    ELSE [o |-> DispatchOut(Out("InvalidUtf8", sess[c], st), <<>>),
          response |-> ErrorPrefix \o <<"InvalidUtf8">> \o CRLF]

\* What Connector::send_request writes for the requests a client sends,
\* and what a peer that is not the rpass client may write.
PeerFrames(kind) ==
    LET WireRequests ==
            { QUIT,
              REGISTER \o <<" ", "a", " ", "1", ":", "1">>,
              LOGIN \o <<" ", "a">>,
              CONFIRM_LOGIN \o <<" ", "a">>,
              NEW_RECORD,
              <<"x">>,
              <<>> }
    IN  IF kind = "client"
        THEN { make_request(r).bytes : r \in WireRequests }
        ELSE { QUIT \o <<EOT>>, <<InvalidByte, EOT>>, <<" ", EOT>>,
               <<"x", EOT>> }

Frames(bytes) == Cardinality({ i \in 1..Len(bytes) : bytes[i] = EOT })

ServeResult(arg, res, bytes, written) ==
    [op |-> "serve", arg |-> arg,
     out |-> [res |-> res, bytes |-> bytes, written |-> written]]

\* write_all succeeds while the peer is there; once the peer has closed it
\* may succeed (the bytes are lost) or fail.
WriteOutcomes == IF peer.open THEN {TRUE} ELSE BOOLEAN

\* A connection was accepted and handle_requests starts: the session is
\* the default one, nothing was written and nothing read.  The client
\* (Connector) or another program is at the other end.  The storage lock
\* may have been poisoned by an earlier connection's thread.
InitWire ==
    /\ harness = "server"
    /\ session = [c \in Conns |->
                    IF c = W THEN DefaultUnauthorized ELSE DroppedSession]
    /\ pc = [c \in Conns |-> IF c = W THEN "accepted" ELSE "closed"]
    /\ dm_username = [c \in Conns |-> EmptyString]
    /\ InitStorage
    /\ poisoned \in BOOLEAN
    /\ InitNoText
    /\ net_in = <<>>
    /\ net_out = <<>>
    /\ peer \in { [kind |-> k, open |-> TRUE, connected |-> FALSE,
                   key |-> <<>>] : k \in {"client", "raw"} }

\* self.send_storage_key(stream)?; `text` keeps what was handed to the
\* first write_all of the connection.
SendStorageKey ==
    /\ pc[W] = "accepted"
    /\ \E write_ok \in WriteOutcomes :
         /\ text' = send_storage_key(PubKey)
         /\ net_out' = IF peer.open THEN net_out \o send_storage_key(PubKey)
                       ELSE net_out
         /\ IF write_ok
            THEN /\ pc' = [pc EXCEPT ![W] = "serving"]
                 /\ SetStore(session, Storage)
            ELSE /\ pc' = [pc EXCEPT ![W] = "closed"]
                 /\ SetStore([session EXCEPT ![W] = DroppedSession], Storage)
    /\ UNCHANGED <<harness, dm_username, poisoned, result, net_in, peer>>

\* The loop as it would be if a failed write_all were ignored.
ServeRequest_ignores_write_error ==
    LET Served(bytes, r, write_ok) ==
            /\ IF r.o.res = "panic"
               THEN /\ SetStore([session EXCEPT ![W] = DroppedSession],
                                r.o.st)
                    /\ pc' = [pc EXCEPT ![W] = "panicked"]
                    /\ poisoned' = TRUE
                    /\ net_out' = net_out
                    /\ result' = ServeResult(bytes, "panic", <<>>, FALSE)
               ELSE /\ poisoned' = poisoned
                    /\ net_out' = IF peer.open
                                  THEN net_out
                                         \o response_to_bytes(r.response)
                                  ELSE net_out
                    /\ result' = ServeResult(bytes, r.o.res,
                                             response_to_bytes(r.response),
                                             write_ok)
                    /\ SetStore([session EXCEPT ![W] = r.o.session], r.o.st)
                    /\ pc' = [pc EXCEPT ![W] =
                                IF is_ended(r.o.session)
                                THEN "closed" ELSE "serving"]
    IN  /\ pc[W] = "serving"
        /\ (\E i \in 1..Len(net_in) : net_in[i] = EOT) \/ ~ peer.open
        /\ peer.open => Frames(net_out) < MaxUnread
        /\ net_in' = SubSeq(net_in, Len(read_until(net_in, EOT)) + 1,
                            Len(net_in))
        /\ \E rand_string \in RandStrings, write_ok \in WriteOutcomes :
             Served(read_request_bytes(net_in),
                    request_response(Storage, poisoned, session, W,
                                     read_request_bytes(net_in), rand_string),
                    write_ok)
        /\ UNCHANGED <<harness, dm_username, text, peer>>

\* One pass of the loop: read_request_bytes, from_utf8, trim,
\* dispatch_request, write_all, and the loop condition.  read_until
\* returns when a terminator arrived or the peer has closed.
ServeRequest ==
    LET Served(bytes, r, write_ok) ==
            /\ IF r.o.res = "panic"
               THEN /\ SetStore([session EXCEPT ![W] = DroppedSession],
                                r.o.st)
                    /\ pc' = [pc EXCEPT ![W] = "panicked"]
                    /\ poisoned' = TRUE
                    /\ net_out' = net_out
                    /\ result' = ServeResult(bytes, "panic", <<>>, FALSE)
               ELSE /\ poisoned' = poisoned
                    /\ net_out' = IF peer.open
                                  THEN net_out
                                         \o response_to_bytes(r.response)
                                  ELSE net_out
                    /\ result' = ServeResult(bytes, r.o.res,
                                             response_to_bytes(r.response),
                                             write_ok)
                    /\ IF ~ write_ok
                       THEN /\ SetStore([session EXCEPT
                                           ![W] = DroppedSession],
                                        r.o.st)
                            /\ pc' = [pc EXCEPT ![W] = "closed"]
                       ELSE /\ SetStore([session EXCEPT
                                           ![W] = r.o.session], r.o.st)
                            /\ pc' = [pc EXCEPT ![W] =
                                        IF is_ended(r.o.session)
                                        THEN "closed" ELSE "serving"]
    IN  /\ pc[W] = "serving"
        /\ (\E i \in 1..Len(net_in) : net_in[i] = EOT) \/ ~ peer.open
        /\ peer.open => Frames(net_out) < MaxUnread
        /\ net_in' = SubSeq(net_in, Len(read_until(net_in, EOT)) + 1,
                            Len(net_in))
        /\ \E rand_string \in RandStrings, write_ok \in WriteOutcomes :
             Served(read_request_bytes(net_in),
                    request_response(Storage, poisoned, session, W,
                                     read_request_bytes(net_in), rand_string),
                    write_ok)
        /\ UNCHANGED <<harness, dm_username, text, peer>>

\* read_until fails on the closed connection: `?` leaves handle_requests.
ReadFails ==
    /\ pc[W] = "serving"
    /\ ~ peer.open
    /\ SetStore([session EXCEPT ![W] = DroppedSession], Storage)
    /\ pc' = [pc EXCEPT ![W] = "closed"]
    /\ result' = ServeResult(<<>>, "Io", <<>>, FALSE)
    /\ UNCHANGED <<harness, dm_username, poisoned, text, net_in, net_out,
                   peer>>

PeerStep ==
    UNCHANGED <<harness, session, pc, dm_username, username_to_user_storage,
                root, dirs, files, poisoned, text, result>>

\* Connector::send_request after Connector::new returned, or any bytes of
\* another program.
PeerSend ==
    /\ peer.open
    /\ Frames(net_in) < MaxPending
    /\ \E frame \in PeerFrames(peer.kind) :
         net_in' = net_in \o frame
    /\ peer.kind = "client" => peer.connected
    /\ UNCHANGED <<net_out, peer>>
    /\ PeerStep

\* Connector::read_server_pub_key for the first message, recv_response
\* afterwards; another program just reads.
PeerRecv ==
    /\ peer.open
    /\ \E i \in 1..Len(net_out) : net_out[i] = EOT
    /\ LET r == read_response(net_out)
           rest == SubSeq(net_out, Len(read_until(net_out, EOT)) + 1,
                          Len(net_out))
       IN  /\ net_out' = rest
           /\ IF peer.kind = "client" /\ ~ peer.connected
              THEN IF r.res = "Ok" /\ KeyFromStrOk(r.text)
                   THEN peer' = [peer EXCEPT !.connected = TRUE,
                                             !.key = r.text]
                   ELSE peer' = [peer EXCEPT !.open = FALSE]
              ELSE peer' = peer
    /\ UNCHANGED net_in
    /\ PeerStep

\* The peer closes the connection; what it did not read is gone.
PeerClose ==
    /\ peer.open
    /\ peer' = [peer EXCEPT !.open = FALSE]
    /\ net_out' = <<>>
    /\ UNCHANGED net_in
    /\ PeerStep

\* Another program writes a request without terminator and closes.
PeerSendAndClose ==
    /\ peer.open
    /\ peer.kind = "raw"
    /\ Frames(net_in) < MaxPending
    /\ net_in' = net_in \o QUIT
    /\ peer' = [peer EXCEPT !.open = FALSE]
    /\ net_out' = <<>>
    /\ PeerStep

SpecWire ==
    /\ InitWire
    /\ [][ \/ SendStorageKey
           \/ ServeRequest
           \/ ReadFails
           \/ PeerSend
           \/ PeerRecv
           \/ PeerClose
           \/ PeerSendAndClose ]_vars

\* The connection's thread keeps running, and write_all on a connection
\* the peer has closed does not succeed forever: while the loop goes on
\* after the peer has closed, passes with a failing write_all keep coming.
SpecWireFair ==
    /\ SpecWire
    /\ WF_vars(SendStorageKey)
    /\ \/ []<>(~ (pc[W] = "serving" /\ ~ peer.open))
       \/ []<><<ServeRequest /\ ~ result'.out.written>>_vars

-----------------------------------------------------------------------------
(* is_safe_for_filename applied to names *)

\* Longest freely chosen start of a name; the end has one character at
\* most, and letters in between bring the name to the lengths around
\* MaxNameLen.
MaxAffixLen == 2

RECURSIVE Pad(_)
Pad(n) == IF n = 0 THEN <<>> ELSE <<"a">> \o Pad(n - 1)

InitName ==
    /\ harness = "unit"
    /\ session = [c \in Conns |-> DefaultUnauthorized]
    /\ pc = [c \in Conns |-> "serving"]
    /\ dm_username = [c \in Conns |-> EmptyString]
    /\ InitStorage
    /\ poisoned = FALSE
    /\ InitNoWire
    /\ LET NameAlphabet == {"a", "1", ".", "@", "_", "/", NonAscii}
       IN  text \in
             { pre \o Pad(n) \o post :
                 pre \in UNION { [1..k -> NameAlphabet] :
                                   k \in 0..MaxAffixLen },
                 post \in UNION { [1..k -> NameAlphabet] : k \in 0..1 },
                 n \in {0, MaxNameLen - 2, MaxNameLen - 1} }
    /\ result = NoResult

IsSafeForFilename ==
    Apply("is_safe_for_filename", text, is_safe_for_filename(text))

SpecName == InitName /\ [][IsSafeForFilename]_vars

-----------------------------------------------------------------------------
(* The client's Authorized session against the server: records *)

\* Longest password and longest notes of the records tried.
MaxFieldLen == 2

Fields ==
    LET FieldAlphabet == {"x", " ", "\r", "\n", Quote, EOT}
    IN  UNION { [1..n -> FieldAlphabet] : n \in 0..MaxFieldLen }

\* The records a client adds: resource a, or no resource.
Records ==
    { [resource |-> r, password |-> p, notes |-> n] :
        r \in { <<"a">>, <<>> },
        p \in Fields \cup { ErrorPrefix },
        n \in Fields }

\* Record::to_string
record_to_string(r) == r.password \o <<"\n">> \o r.notes

\* Record::from_str: split_once('\n')
record_from_str(s) ==
    IF ~ RecordFromStrOk(s)
    THEN [res |-> "ParseRecordError", password |-> <<>>, notes |-> <<>>]
    ELSE LET i == CHOOSE k \in 1..Len(s) :
                     s[k] = "\n" /\ \A j \in 1..(k - 1) : s[j] /= "\n"
         IN  [res |-> "Ok", password |-> SubSeq(s, 1, i - 1),
              notes |-> SubSeq(s, i + 1, Len(s))]

\* One pass of the loop of handle_requests over the frame the client
\* wrote; `body` is the String the callback returns in Ok.
ServerPass(st, sess, c, frame, body) ==
    LET Pass(r) ==
            [o |-> r.o,
             frame |-> response_to_bytes(
                           IF r.o.res /= "Ok" THEN r.response
                           ELSE IF ends_with(body, CRLF) THEN body
                           ELSE body \o CRLF)]
    IN  Pass(request_response(st, FALSE, sess, c, read_request_bytes(frame),
                              <<"a">>))

\* utils::read_good_response on what recv_response returned.
read_good_response(r) ==
    IF r.res /= "Ok" THEN [res |-> r.res, text |-> <<>>]
    ELSE IF starts_with(r.text, ErrorPrefix)
    THEN [res |-> "Server",
          text |-> SubSeq(r.text, Len(ErrorPrefix) + 1, Len(r.text))]
    ELSE [res |-> "Ok", text |-> r.text]

\* utils::read_ok_response
read_ok_response(r) ==
    LET g == read_good_response(r)
    IN  IF g.res /= "Ok" THEN g.res
        ELSE IF g.text = OkText THEN "Ok"
        ELSE "UnexpectedResponse"

\* Authorized::check_resource
check_resource(resource) == resource /= EmptyString

\* Authorized::add_record and the server's new_record behind it: the
\* client's result, the storage afterwards and the file that was written.
add_record(st, sess, c, record) ==
    LET request == NEW_RECORD \o <<" ">> \o record.resource
                     \o <<" ", Quote>> \o record_to_string(record)
                     \o <<Quote>>
        Failed(res) ==
            [res |-> res, st |-> st, file |-> <<>>, content |-> <<>>]
        Received(p, tokens) ==
            [res |-> read_ok_response(read_response(p.frame)),
             st |-> p.o.st,
             file |-> IF p.o.res = "Ok" THEN tokens[2] ELSE <<>>,
             content |-> IF p.o.res = "Ok"
                         THEN record_to_string(record_from_str(tokens[3]))
                         ELSE <<>>]
        Sent(m) ==
            IF m.res /= "Ok" THEN Failed(m.res)
            ELSE Received(ServerPass(st, sess, c, m.bytes, OkText),
                          Tokenize(trim(read_request_bytes(m.bytes))))
    IN  IF ~ check_resource(record.resource) THEN Failed("InvalidResource")
        ELSE Sent(make_request(request))

\* Authorized::get_record and the server's show_record behind it, where
\* the record file `file` holds `content` and a record file that was there
\* from the start holds "p\nn".
client_get_record(st, sess, c, resource, file, content) ==
    LET Failed(res) == [res |-> res, record |-> <<>>]
        Parsed(parsed) ==
            IF parsed.res /= "Ok" THEN Failed(parsed.res)
            ELSE [res |-> "Ok",
                  record |-> [resource |-> resource,
                              password |-> parsed.password,
                              notes |-> parsed.notes]]
        Received(g) ==
            IF g.res /= "Ok" THEN Failed(g.res)
            ELSE Parsed(record_from_str(g.text))
        Stored(asked) ==
            IF Len(asked) >= 2 /\ asked[2] = file THEN content
            ELSE <<"p", "\n", "n">>
        Sent(m) ==
            IF m.res /= "Ok" THEN Failed(m.res)
            ELSE Received(read_good_response(read_response(
                     ServerPass(st, sess, c, m.bytes,
                                record_to_string(record_from_str(
                                    Stored(Tokenize(trim(
                                        read_request_bytes(m.bytes)))))))
                       .frame)))
    IN  IF ~ check_resource(resource) THEN Failed("InvalidResource")
        ELSE Sent(make_request(SHOW_RECORD \o <<" ">> \o resource))

\* The order of String: byte by byte, a prefix first.
RECURSIVE Less(_, _)
Less(x, y) ==
    LET Byte(c) == IF c = "1" THEN 49 ELSE IF c = "a" THEN 97 ELSE 98
    IN  IF y = <<>> THEN FALSE
        ELSE IF x = <<>> THEN TRUE
        ELSE IF Head(x) /= Head(y) THEN Byte(Head(x)) < Byte(Head(y))
        ELSE Less(Tail(x), Tail(y))

\* to_string_with_delimiter(values, "\n")
RECURSIVE to_string_with_delimiter(_)
to_string_with_delimiter(values) ==
    IF values = <<>> THEN <<>>
    ELSE IF Len(values) = 1 THEN values[1]
    ELSE to_string_with_delimiter(SubSeq(values, 1, Len(values) - 1))
           \o <<"\n">> \o values[Len(values)]

\* str::split('\n'): one more piece than there are newlines.
RECURSIVE split(_)
split(s) ==
    IF \E i \in 1..Len(s) : s[i] = "\n"
    THEN LET i == CHOOSE k \in 1..Len(s) :
                     s[k] = "\n" /\ \A j \in 1..(k - 1) : s[j] /= "\n"
         IN  <<SubSeq(s, 1, i - 1)>> \o split(SubSeq(s, i + 1, Len(s)))
    ELSE <<s>>

\* Authorized::get_records_list and the server's list_records behind it:
\* the String the callback returned and the list the client returns.
\* UserStorage::list_records returns the names of the record files, sorted.
get_records_list(st, sess, c) ==
    LET NoRecordsYet ==
            <<"N", "o", " ", "r", "e", "c", "o", "r", "d", "s", " ",
              "y", "e", "t">>
        names == st.files[sess[c].username]
        nth(k) == CHOOSE x \in names :
                      Cardinality({ y \in names : Less(y, x) }) = k - 1
        Received(body, g) ==
            IF g.res /= "Ok" THEN [res |-> g.res, body |-> body, list |-> <<>>]
            ELSE IF g.text = NoRecordsYet
            THEN [res |-> "Ok", body |-> body, list |-> <<>>]
            ELSE [res |-> "Ok", body |-> body, list |-> split(g.text)]
        Sent(body) ==
            Received(body,
                     read_good_response(read_response(
                         ServerPass(st, sess, c,
                                    make_request(LIST_RECORDS).bytes, body)
                           .frame)))
    IN  Sent(to_string_with_delimiter(
                 [k \in 1..Cardinality(names) |-> nth(k)]))

\* The session of connection W is Authorized as a, whose directory holds
\* some record files; the client is about to add the record `text`.
InitClient ==
    /\ harness = "server"
    /\ session = [c \in Conns |->
                    IF c = W THEN AuthorizedSession(<<"a">>, 1)
                    ELSE DroppedSession]
    /\ pc = [c \in Conns |-> IF c = W THEN "serving" ELSE "closed"]
    /\ dm_username = [c \in Conns |-> EmptyString]
    /\ username_to_user_storage
         = [u \in CacheKeys |-> IF u = <<"a">> THEN 1 ELSE NoStore]
    /\ root = TRUE
    /\ dirs = { <<"a">> }
    /\ \E names \in SUBSET { <<"a">>, <<"b">>, <<"a", "1">> } :
         files = [u \in CacheKeys |-> IF u = <<"a">> THEN names ELSE {}]
    /\ poisoned = FALSE
    /\ InitNoWire
    /\ text \in (IF files[<<"a">>] = {} THEN Records
                 ELSE { [resource |-> <<"a">>, password |-> <<"x">>,
                         notes |-> <<"x">>] })
    /\ result = NoResult

\* add_record(&record) and then get_record(record.resource).
AddThenGet ==
    LET Get(a) ==
            Apply("add_get", text,
                  [add |-> a.res,
                   get |-> client_get_record(a.st, session, W, text.resource,
                                             a.file, a.content)])
    IN  Get(add_record(Storage, session, W, text))

GetRecordsList ==
    Apply("get_records_list", files[<<"a">>],
          get_records_list(Storage, session, W))

SpecClient ==
    /\ InitClient
    /\ [][ \/ AddThenGet
           \/ GetRecordsList ]_vars

-----------------------------------------------------------------------------
(* The client's Unauthorized session: login *)

\* Longest challenge the server answers to login.
MaxChallengeLen == 2

ErrorWord == <<"E", "r", "r", "o", "r">>

\* What recv_response can return to try_login: a challenge, Ok or almost
\* Ok, an error message or the beginning of one.
Responses ==
    UNION { [1..n -> {"a", "b"}] : n \in 0..MaxChallengeLen }
      \cup { OkText, OkText \o <<" ">>, <<"o", "k">>, <<"O">>,
             ErrorWord, ErrorPrefix \o <<"x">>, <<"E", "r", "r", "o">>,
             <<" ">> \o ErrorWord }

\* try_login that takes every response that starts with Ok for Ok.
try_login_ok_prefix(username, sec_key, fail, r1, r2) ==
    LET login_request == LOGIN \o <<" ">> \o username
        confirm_login_request ==
            CONFIRM_LOGIN \o <<" ">>
              \o Encrypt("server_pub_key", Decrypt(sec_key, r1))
    IN  IF fail = "send1" THEN [res |-> "Io", sent |-> <<login_request>>]
        ELSE IF fail = "recv1"
        THEN [res |-> "Io", sent |-> <<login_request>>]
        ELSE IF starts_with(r1, ErrorWord)
        THEN [res |-> "Server", sent |-> <<login_request>>]
        ELSE IF fail = "send2"
        THEN [res |-> "Io", sent |-> <<login_request, confirm_login_request>>]
        ELSE IF fail = "recv2"
        THEN [res |-> "Io", sent |-> <<login_request, confirm_login_request>>]
        ELSE IF starts_with(r2, OkText)
        THEN [res |-> "Ok", sent |-> <<login_request, confirm_login_request>>]
        ELSE [res |-> "Server",
              sent |-> <<login_request, confirm_login_request>>]

\* Unauthorized::try_login: its result and the requests it handed to
\* send_request, where recv_response returns r1 and then r2.
try_login(username, sec_key, fail, r1, r2) ==
    LET login_request == LOGIN \o <<" ">> \o username
        confirm_login_request ==
            CONFIRM_LOGIN \o <<" ">>
              \o Encrypt("server_pub_key", Decrypt(sec_key, r1))
    IN  IF fail = "send1" THEN [res |-> "Io", sent |-> <<login_request>>]
        ELSE IF fail = "recv1"
        THEN [res |-> "Io", sent |-> <<login_request>>]
        ELSE IF starts_with(r1, ErrorWord)
        THEN [res |-> "Server", sent |-> <<login_request>>]
        ELSE IF fail = "send2"
        THEN [res |-> "Io", sent |-> <<login_request, confirm_login_request>>]
        ELSE IF fail = "recv2"
        THEN [res |-> "Io", sent |-> <<login_request, confirm_login_request>>]
        ELSE IF r2 = OkText
        THEN [res |-> "Ok", sent |-> <<login_request, confirm_login_request>>]
        ELSE [res |-> "Server",
              sent |-> <<login_request, confirm_login_request>>]

\* Unauthorized::login: Authorized::new(self.connector) on Ok, self inside
\* the LoginError otherwise.  A session is the connector it owns, with the
\* requests that were handed to send_request.
client_login(username, sec_key, fail, r1, r2) ==
    LET t == try_login(username, sec_key, fail, r1, r2)
    IN  [res |-> t.res,
         session |-> [state |-> IF t.res = "Ok" THEN "Authorized"
                                ELSE "Unauthorized",
                      server_pub_key |-> "server_pub_key",
                      sent |-> t.sent]]

InitLogin ==
    /\ harness = "login"
    /\ session = [c \in Conns |-> DroppedSession]
    /\ pc = [c \in Conns |-> "closed"]
    /\ dm_username = [c \in Conns |-> EmptyString]
    /\ InitStorage
    /\ poisoned = FALSE
    /\ InitNoWire
    /\ \E username \in { <<"a">>, <<>> } :
       \E fail \in {"none", "send1", "recv1", "send2", "recv2"} :
       \E r1 \in Responses : \E r2 \in Responses :
          text = [username |-> username, fail |-> fail, r1 |-> r1, r2 |-> r2]
    /\ result = NoResult

ClientLogin ==
    Apply("login", text,
          client_login(text.username, "sec_key", text.fail, text.r1, text.r2))

SpecLogin == InitLogin /\ [][ClientLogin]_vars

-----------------------------------------------------------------------------
(* The files of one user directory: the records and key.pub *)

PUB_KEY_FILENAME == <<"k", "e", "y", ".", "p", "u", "b">>

\* Storage::get_user_pub_key with the file looked at: pub_key_file.exists(),
\* then Key::from_file on what the file holds.
get_user_pub_key_from_file(st, u, content) ==
    IF ~ (PathExists(st, u) /\ PUB_KEY_FILENAME \in st.files[u])
    THEN "UserDoesNotExist"
    ELSE IF KeyFromStrOk(content) THEN "Ok" ELSE "InvalidKey"

\* The storage after `register a 1:1` and the sessions after login and
\* confirm_login as a.  files[a] lists key.pub with the records, and `text`
\* is what key.pub of a holds (<<>> once the file is gone).
InitKey ==
    /\ harness = "unit"
    /\ session = [c \in Conns |-> AuthorizedSession(<<"a">>, 1)]
    /\ pc = [c \in Conns |-> "serving"]
    /\ dm_username = [c \in Conns |-> EmptyString]
    /\ username_to_user_storage =
          [u \in CacheKeys |-> IF u = <<"a">> THEN 1 ELSE NoStore]
    /\ root = TRUE
    /\ dirs = {<<"a">>}
    /\ files = [d \in CacheKeys |->
                  IF d = <<"a">> THEN {PUB_KEY_FILENAME} ELSE {}]
    /\ poisoned = FALSE
    /\ text = strip_quotes(KeyToken)
    /\ result = NoResult
    /\ InitNoWire

\* new_record, show_record and delete_record of a session of a, the resource
\* being a record name or key.pub.  fs::write puts record.to_string() into
\* the file, Record::from_str reads what the file holds.
RecordCommand ==
    /\ \E c \in Conns,
          resource \in {<<"a">>, <<"b">>, PUB_KEY_FILENAME},
          content \in {<<"a", "\n", "b">>, <<"b", "\n">>, <<"\n">>} :
         LET Done(op, o, res, key_file) ==
                 /\ SetStore(session, o.st)
                 /\ text' = key_file
                 /\ result' = [op |-> op, arg |-> resource, out |-> res]
             Written(o) ==
                 Done("new_record", o, o.res,
                      IF o.res = "Ok" /\ resource = PUB_KEY_FILENAME
                      THEN content ELSE text)
             Shown(o) ==
                 Done("show_record", o,
                      IF /\ o.res = "Ok"
                         /\ resource = PUB_KEY_FILENAME
                         /\ ~ RecordFromStrOk(text)
                      THEN "CantParseRecord" ELSE o.res,
                      text)
             Deleted(o) ==
                 Done("delete_record", o, o.res,
                      IF o.res = "Ok" /\ resource = PUB_KEY_FILENAME
                      THEN <<>> ELSE text)
         IN  \/ Written(new_record(Storage, session[c], <<resource, content>>))
             \/ Shown(show_record(Storage, session[c], <<resource>>))
             \/ Deleted(delete_record(Storage, session[c], <<resource>>))
    /\ UNCHANGED <<harness, pc, dm_username, poisoned, net_in, net_out, peer>>

\* login as a up to its get_user_pub_key.
GetUserPubKey ==
    /\ result' = [op |-> "get_user_pub_key", arg |-> <<"a">>,
                  out |-> get_user_pub_key_from_file(Storage, <<"a">>, text)]
    /\ UNCHANGED <<harness, session, pc, dm_username,
                   username_to_user_storage, root, dirs, files, poisoned,
                   text, net_in, net_out, peer>>

SpecKey == InitKey /\ [][RecordCommand \/ GetUserPubKey]_vars

-----------------------------------------------------------------------------
(* The client's session and the server's session of its connection *)

\* Connection W is the client's; the other connections send what they like.
\* `peer` is the client: the variant of its session, the operation it is
\* in, and the username it logs in with.  net_out holds the response to
\* `login` until try_login reads it.
InitPair ==
    /\ harness = "server"
    /\ session = [c \in Conns |-> DefaultUnauthorized]
    /\ pc = [c \in Conns |-> "serving"]
    /\ dm_username = [c \in Conns |-> EmptyString]
    /\ InitStorage
    /\ poisoned = FALSE
    /\ InitNoText
    /\ net_in = <<>>
    /\ net_out = <<>>
    /\ peer = [session |-> "Unauthorized", op |-> "idle",
               username |-> EmptyString]

\* The pass of handle_requests over the frame send_request wrote.
Exchange(request, rand_string) ==
    request_response(Storage, poisoned, session, W,
                     read_request_bytes(make_request(request).bytes),
                     rand_string)

\* What recv_response returns after the pass: the response, or the end of
\* the stream when the thread panicked, which closes the connection.
Answer(r) ==
    IF r.o.res = "panic" THEN read_response(<<>>)
    ELSE read_response(response_to_bytes(r.response))

\* What the pass leaves on the server.
ServePass(r) ==
    /\ IF r.o.res = "panic"
       THEN /\ SetStore([session EXCEPT ![W] = DroppedSession], r.o.st)
            /\ pc' = [pc EXCEPT ![W] = "panicked"]
       ELSE /\ SetStore([session EXCEPT ![W] = r.o.session], r.o.st)
            /\ pc' = [pc EXCEPT ![W] = IF is_ended(r.o.session)
                                       THEN "closed" ELSE "serving"]
    /\ UNCHANGED <<harness, dm_username, poisoned, text, net_in>>

\* Unauthorized::register
ClientRegister ==
    /\ peer.op = "idle"
    /\ peer.session = "Unauthorized"
    /\ pc[W] = "serving"
    /\ LET Done(r) ==
               /\ ServePass(r)
               /\ result' = [op |-> "register", arg |-> <<"a">>,
                             out |-> IF Answer(r).text = OkText
                                     THEN "Ok" ELSE "Server"]
       IN  Done(Exchange(REGISTER \o <<" ", "a", " ">> \o PubKey, <<"a">>))
    /\ UNCHANGED <<net_out, peer>>

\* try_login up to its first recv_response; the response waits in net_out.
ClientSendLogin ==
    /\ peer.op = "idle"
    /\ peer.session = "Unauthorized"
    /\ pc[W] = "serving"
    /\ \E rand_string \in RandStrings :
         LET Sent(r) ==
                 /\ ServePass(r)
                 /\ net_out' = IF r.o.res = "panic" THEN <<>>
                               ELSE response_to_bytes(r.response)
         IN  Sent(Exchange(LOGIN \o <<" ", "a">>, rand_string))
    /\ peer' = [peer EXCEPT !.op = "login", !.username = <<"a">>]
    /\ UNCHANGED result

\* try_login from its first recv_response on, and Unauthorized::login
\* around it.  After an Error response nothing is sent; on a connection the
\* server has left, recv_response returns the empty text.
ClientConfirmLogin ==
    /\ peer.op = "login"
    /\ LET r1 == read_response(net_out).text
           Done(t) ==
               /\ peer' = [peer EXCEPT !.op = "idle",
                                       !.session = t.session.state]
               /\ result' = [op |-> "login", arg |-> peer.username,
                             out |-> t.res]
           Confirmed(r) ==
               /\ ServePass(r)
               /\ Done(client_login(peer.username, "sec_key", "none", r1,
                                    Answer(r).text))
       IN  IF starts_with(r1, ErrorWord) \/ pc[W] /= "serving"
           THEN /\ Done(client_login(peer.username, "sec_key", "none", r1,
                                     <<>>))
                /\ UNCHANGED <<harness, session, pc, dm_username,
                               username_to_user_storage, root, dirs, files,
                               poisoned, text, net_in>>
           ELSE Confirmed(Exchange(try_login(peer.username, "sec_key",
                                             "none", r1, <<>>).sent[2],
                                   <<"a">>))
    /\ net_out' = <<>>

\* Authorized::try_delete_me up to the server's storage.write(): the
\* request is sent and delete_me has reset the session.
ClientSendDeleteMe ==
    /\ peer.op = "idle"
    /\ peer.session = "Authorized"
    /\ pc[W] = "serving"
    /\ session[W].state = "Authorized"
    /\ SetStore([session EXCEPT ![W] = delete_me_begin(session[W]).session],
                Storage)
    /\ dm_username' = [dm_username EXCEPT ![W] = session[W].username]
    /\ pc' = [pc EXCEPT ![W] = "delete_me"]
    /\ peer' = [peer EXCEPT !.op = "delete_me"]
    /\ UNCHANGED <<harness, poisoned, text, result, net_in, net_out>>

\* The rest of delete_me on the server, and read_ok_response and
\* Authorized::delete_me on the client.
ClientReadDeleteMe ==
    /\ peer.op = "delete_me"
    /\ pc[W] = "delete_me"
    /\ LET Done(o, res) ==
               /\ IF o.res = "panic"
                  THEN /\ SetStore([session EXCEPT ![W] = DroppedSession],
                                   o.st)
                       /\ pc' = [pc EXCEPT ![W] = "panicked"]
                       /\ poisoned' = TRUE
                  ELSE /\ SetStore([session EXCEPT ![W] = o.session], o.st)
                       /\ pc' = [pc EXCEPT ![W] = "serving"]
                       /\ poisoned' = poisoned
               /\ result' = [op |-> "delete_me", arg |-> dm_username[W],
                             out |-> res]
               /\ peer' = [peer EXCEPT !.op = "idle",
                                       !.session = IF res = "Ok"
                                                   THEN "Unauthorized"
                                                   ELSE "Authorized"]
           Read(o) ==
               Done(o, read_ok_response(
                           IF o.res = "panic" THEN read_response(<<>>)
                           ELSE read_response(response_to_bytes(
                                    ResponseText(DispatchOut(o, DELETE_ME))
                                      \o IF o.res = "Ok" THEN CRLF
                                         ELSE <<>>))))
       IN  Read(delete_me_locked(Storage, poisoned, session, W,
                                 dm_username[W]))
    /\ dm_username' = [dm_username EXCEPT ![W] = EmptyString]
    /\ UNCHANGED <<harness, text, net_in, net_out>>

\* Authorized::add_record
ClientAddRecord ==
    /\ peer.op = "idle"
    /\ peer.session = "Authorized"
    /\ pc[W] = "serving"
    /\ LET Done(a) ==
               /\ SetStore(session, a.st)
               /\ result' = [op |-> "add_record", arg |-> <<"a">>,
                             out |-> a.res]
       IN  Done(add_record(Storage, session, W,
                           [resource |-> <<"a">>, password |-> <<"x">>,
                            notes |-> <<>>]))
    /\ UNCHANGED <<harness, pc, dm_username, poisoned, text, net_in, net_out,
                   peer>>

SpecPair ==
    /\ InitPair
    /\ [][ \/ ClientRegister
           \/ ClientSendLogin
           \/ ClientConfirmLogin
           \/ ClientSendDeleteMe
           \/ ClientReadDeleteMe
           \/ ClientAddRecord
           \/ \E c \in Conns \ {W} :
                 \/ Register(c)
                 \/ Login(c)
                 \/ ConfirmLogin(c)
                 \/ DeleteMeBegin(c)
                 \/ DeleteMeLocked(c) ]_vars

-----------------------------------------------------------------------------
(* The locks the request handlers take *)

\* Every connection is between requests and no lock is held.  text[c] is
\* the command connection c is serving.
InitLock ==
    /\ harness = "locks"
    /\ session = [c \in Conns |-> DefaultUnauthorized]
    /\ pc = [c \in Conns |-> "serving"]
    /\ dm_username = [c \in Conns |-> EmptyString]
    /\ InitStorage
    /\ poisoned = FALSE
    /\ text = [c \in Conns |-> <<>>]
    /\ result = NoResult
    /\ InitNoWire

\* One step of the thread of connection c.  pc[c] tells which guards it
\* holds: "dispatch" the read guard of the dispatcher alone, the other
\* values one more guard, "between" none after confirm_login has dropped
\* its read guard.  The dispatcher is written only before Server::run, so
\* its read guard is always granted.  A guard of the storage lock or of a
\* user's store (all sessions share one store here) is granted when no
\* conflicting guard is held; .unwrap() on the poisoned storage lock
\* panics, and so does delete_me under its write guard when delete_user
\* and get_user_storage both fail.  A callback may return before it takes
\* a lock (a wrong session state, a missing argument).
LockStep(c) ==
    LET At(p) == { c2 \in Conns \ {c} : pc[c2] = p }
        Go(p) == pc' = [pc EXCEPT ![c] = p] /\ UNCHANGED <<text, poisoned>>
        Lock(p, free) ==
            /\ free
            /\ Go(IF poisoned THEN "panicked" ELSE p)
        NoWriter == At("storage_write") = {}
        NoGuard == NoWriter /\ At("storage_read") = {}
    IN  /\ \/ /\ pc[c] = "serving"
              /\ \E command \in {REGISTER, LOGIN, CONFIRM_LOGIN, DELETE_ME,
                                 QUIT, NEW_RECORD, LIST_RECORDS} :
                   text' = [text EXCEPT ![c] = command]
              /\ pc' = [pc EXCEPT ![c] = "dispatch"]
              /\ UNCHANGED poisoned
           \/ /\ pc[c] \in {"dispatch", "between"}
              /\ Go("serving")
           \/ /\ pc[c] = "dispatch"
              /\ text[c] \in {LOGIN, CONFIRM_LOGIN}
              /\ Lock("storage_read", NoWriter)
           \/ /\ pc[c] = "storage_read"
              /\ Go(IF text[c] = CONFIRM_LOGIN THEN "between" ELSE "serving")
           \/ /\ \/ pc[c] = "dispatch" /\ text[c] \in {REGISTER, DELETE_ME}
                 \/ pc[c] = "between"
              /\ Lock("storage_write", NoGuard)
           \/ /\ pc[c] = "storage_write"
              /\ Go("serving")
           \/ /\ pc[c] = "storage_write"
              /\ text[c] = DELETE_ME
              /\ pc' = [pc EXCEPT ![c] = "panicked"]
              /\ poisoned' = TRUE
              /\ UNCHANGED text
           \/ /\ pc[c] = "dispatch"
              /\ text[c] = LIST_RECORDS
              /\ At("user_storage_write") = {}
              /\ Go("user_storage_read")
           \/ /\ pc[c] = "dispatch"
              /\ text[c] = NEW_RECORD
              /\ At("user_storage_write") = {}
              /\ At("user_storage_read") = {}
              /\ Go("user_storage_write")
           \/ /\ pc[c] \in {"user_storage_read", "user_storage_write"}
              /\ Go("serving")
        /\ UNCHANGED <<harness, session, dm_username,
                       username_to_user_storage, root, dirs, files, result,
                       net_in, net_out, peer>>

\* Every thread keeps running, and a thread that waits for a lock gets it
\* if the lock is free again and again.
SpecLock ==
    /\ InitLock
    /\ [][\E c \in Conns : LockStep(c)]_vars
    /\ \A c \in Conns : SF_vars(LockStep(c))

-----------------------------------------------------------------------------
(* Properties *)

Holds(c) == session[c].state = "Authorized"

\* The response the client computes for a challenge (Unauthorized::try_login):
\* decrypt with its secret key, encrypt with the server's public key.
CorrectResponse(challenge) ==
    Encrypt("server_pub_key", Decrypt("sec_key", challenge))

\* C1: at most one live UserStorage exists per username: two sessions
\* Authorized as the same user hold the same store, and while a session
\* holds a store for a username, get_user_storage(username) returns that
\* store and loads nothing.
C1_OneLiveStorePerUser ==
    /\ \A c1, c2 \in Conns :
          (Holds(c1) /\ Holds(c2)
           /\ session[c1].username = session[c2].username)
          => session[c1].user_storage = session[c2].user_storage
    /\ \A c \in Conns :
          Holds(c) =>
            LET g == get_user_storage(Storage, session, session[c].username)
            IN  /\ g.res = "Ok"
                /\ g.id = session[c].user_storage
                /\ g.st = Storage

C1_Witness ==
    \E c1, c2 \in Conns :
        /\ c1 /= c2
        /\ Holds(c1) /\ Holds(c2)
        /\ session[c1].username = session[c2].username
        /\ session[c1].user_storage = session[c2].user_storage

\* C2: a user's backing data is never deleted while a session holds a
\* handle for that user, and delete_user(username) called while a strong
\* handle is alive fails with UnsupportedActionForMultiSession and leaves
\* the map, the backing data and the handles as they are.
C2_NoDeleteWhileReferenced ==
    \A c \in Conns :
        Holds(c) =>
          /\ PathExists(Storage, session[c].username)
          /\ LET d == delete_user(Storage, session, session[c].username)
             IN  d.res = "UnsupportedActionForMultiSession" /\ d.st = Storage

\* C3: a session that is Unauthorized with no pending challenge does not
\* become Authorized by the request it serves next.
C3_NoAuthorizationWithoutLogin ==
    [][ \A c \in Conns :
          (/\ pc[c] = "serving"
           /\ session[c].state = "Unauthorized"
           /\ session[c].login_confirmation = EmptyString)
          => session'[c].state /= "Authorized" ]_vars

\* C4: on a session with a pending challenge of a login for a registered
\* user, confirm_login with the correctly computed response returns Ok and
\* makes the session Authorized with that username and a handle to that
\* user's store; confirm_login on an Authorized session fails with
\* UnacceptableRequestAtThisState.
C4_HandshakeSucceeds ==
    \A c \in Conns : \A raw \in ArgLists :
        LET s == session[c]
            args == Stripped(raw)
            o == confirm_login(Storage, poisoned, session, c, args)
        IN  /\ (/\ pc[c] = "serving"
                /\ s.state = "Unauthorized"
                /\ s.login_confirmation /= EmptyString
                /\ PathExists(Storage, s.username)
                /\ Len(args) = 1
                /\ args[1] = CorrectResponse(s.login_confirmation))
               => /\ o.res = "Ok"
                  /\ o.session.state = "Authorized"
                  /\ o.session.username = s.username
                  /\ o.session.user_storage \in StoreIds
                  /\ o.st.cache[s.username] = o.session.user_storage
            /\ (pc[c] = "serving" /\ s.state = "Authorized")
               => o.res = "UnacceptableRequestAtThisState"

\* C5: confirm_login with an argument that decrypts to something else than
\* the pending challenge fails with InvalidConfirmationString, leaves the
\* session Unauthorized without a handle and clears the pending challenge.
C5_MismatchClearsChallenge ==
    \A c \in Conns : \A raw \in ArgLists :
        LET s == session[c]
            args == Stripped(raw)
            o == confirm_login(Storage, poisoned, session, c, args)
        IN  (/\ pc[c] = "serving"
             /\ s.state = "Unauthorized"
             /\ s.login_confirmation /= EmptyString
             /\ Len(args) = 1
             /\ Decrypt("sec_key", args[1]) /= s.login_confirmation)
            => /\ o.res = "InvalidConfirmationString"
               /\ o.session.state = "Unauthorized"
               /\ o.session.user_storage = NoStore
               /\ o.session.login_confirmation = EmptyString

\* C6: new_record, show_record, list_records, delete_record and delete_me on
\* an Unauthorized session, with or without a pending challenge, fail with
\* UnacceptableRequestAtThisState and leave the session and the storage as
\* they are.
C6_AuthorizedOnlyRejected ==
    \A c \in Conns :
        (pc[c] = "serving" /\ session[c].state = "Unauthorized") =>
          LET s == session[c]
              Rejected(o) ==
                  /\ o.res = "UnacceptableRequestAtThisState"
                  /\ o.session = s
                  /\ o.st = Storage
          IN  /\ \A raw \in NewRecordArgLists :
                    Rejected(new_record(Storage, s, Stripped(raw)))
              /\ \A raw \in RecordArgLists :
                    /\ Rejected(show_record(Storage, s, Stripped(raw)))
                    /\ Rejected(delete_record(Storage, s, Stripped(raw)))
              /\ Rejected(list_records(Storage, s))
              /\ delete_me_begin(s).res = "UnacceptableRequestAtThisState"
              /\ delete_me_begin(s).session = s

C6_Witness ==
    \E c \in Conns :
        /\ pc[c] = "serving"
        /\ session[c].state = "Unauthorized"
        /\ session[c].login_confirmation /= EmptyString
        /\ \E u \in CacheKeys : files[u] /= {}

\* C7: a login request served on an Authorized session leaves the session
\* Authorized with its username and its handle.
C7_LoginKeepsAuthorized ==
    [][ \A c \in Conns :
          (session[c].state = "Authorized" /\ Login(c))
          => session'[c] = session[c] ]_vars

\* C8: once a session is Ended it stays Ended, whatever command is
\* dispatched on it.
C8_EndedStaysEnded ==
    [][ \A c \in Conns :
          session[c].state = "Ended" => session'[c].state = "Ended" ]_vars

\* C9: delete_me on the only session Authorized as a user, no other session
\* holding a handle for that user, returns Ok, leaves the session
\* Unauthorized with an empty username and no pending challenge, removes
\* the map entry and deletes the account's backing data, after which the
\* user's public key is not found.
C9_LoneDeleteMeSucceeds ==
    \A c \in Conns :
        (/\ pc[c] = "serving"
         /\ Holds(c)
         /\ \A c2 \in Conns \ {c} :
               ~ (/\ Holds(c2)
                  /\ \/ session[c2].username = session[c].username
                     \/ session[c2].user_storage = session[c].user_storage))
        => LET b == delete_me_begin(session[c])
               sess == [session EXCEPT ![c] = b.session]
               o == delete_me_locked(Storage, poisoned, sess, c, b.username)
           IN  /\ o.res = "Ok"
               /\ o.session = DefaultUnauthorized
               /\ o.st.cache[b.username] = NoStore
               /\ ~ PathExists(o.st, b.username)
               /\ get_user_pub_key(o.st, b.username) = "UserDoesNotExist"

\* C10: when delete_user fails inside delete_me because another session
\* holds a handle for the same user, the calling session is Authorized
\* afterwards with the same username and the store the other session uses,
\* the error is UnsupportedActionForMultiSession and the backing data is
\* untouched.
C10_FailedDeleteMeRestores ==
    [][ \A c \in Conns :
          (/\ DeleteMeLocked(c)
           /\ ~ poisoned
           /\ \E c2 \in Conns \ {c} :
                 Holds(c2) /\ session[c2].username = dm_username[c])
          => /\ delete_me_locked(Storage, poisoned, session, c,
                                 dm_username[c]).res
                = "UnsupportedActionForMultiSession"
             /\ pc'[c] = "serving"
             /\ session'[c].state = "Authorized"
             /\ session'[c].username = dm_username[c]
             /\ \A c2 \in Conns \ {c} :
                   (Holds(c2) /\ session[c2].username = dm_username[c])
                   => /\ session'[c].user_storage = session[c2].user_storage
                      /\ session'[c2] = session[c2]
             /\ root' = root /\ dirs' = dirs /\ files' = files ]_vars

C10_Witness ==
    \E c \in Conns :
        /\ pc[c] = "delete_me"
        /\ ~ poisoned
        /\ \E c2 \in Conns \ {c} :
              Holds(c2) /\ session[c2].username = dm_username[c]
        /\ PathExists(Storage, dm_username[c])

\* C11: once every handle for a username has been dropped, delete_user of
\* that username succeeds; get_user_storage then fails with
\* UserDoesNotExist, and after the username is registered again it returns
\* a newly loaded store over a directory without records.
C11_DeleteAfterHandlesDropped ==
    \A u \in UserNames :
        (username_to_user_storage[u] = Dead) =>
          LET d == delete_user(Storage, session, u)
              g == get_user_storage(d.st, session, u)
              a == add_new_user(d.st, u)
              g2 == get_user_storage(a.st, session, u)
          IN  /\ d.res = "Ok"
              /\ d.st.cache[u] = NoStore
              /\ g.res = "UserDoesNotExist"
              /\ (a.res = "Ok") =>
                    /\ g2.res = "Ok"
                    /\ \A c \in Conns : session[c].user_storage /= g2.id
                    /\ a.st.files[u] = {}

\* C12: quit served on an Unauthorized or Authorized session returns Ok and
\* leaves the session Ended; the handle of an Authorized session is
\* released, so the strong count of its store drops by one.
C12_QuitEndsSession ==
    [][ \A c \in Conns :
          (Quit(c) /\ session[c].state \in {"Unauthorized", "Authorized"})
          => /\ quit(Storage, session[c]).res = "Ok"
             /\ session'[c].state = "Ended"
             /\ session'[c].user_storage = NoStore
             /\ (session[c].state = "Authorized") =>
                   StrongCount(session', session[c].user_storage)
                   = StrongCount(session, session[c].user_storage) - 1 ]_vars

C12_Witness ==
    \E c \in Conns :
        /\ session[c].state = "Ended"
        /\ \E u \in UserNames : username_to_user_storage[u] = Dead
        /\ \A c2 \in Conns \ {c} : session[c2] = DefaultUnauthorized

EndsWithCRLF(s) ==
    Len(s) >= 2 /\ s[Len(s) - 1] = "\r" /\ s[Len(s)] = "\n"

WithoutCRLF(s) ==
    IF EndsWithCRLF(s) THEN SubSeq(s, 1, Len(s) - 2) ELSE s

\* C17: for a text without the terminator byte, read_response applied to
\* the bytes make_request produced returns the text, less one trailing
\* "\r\n" if the text ends with one.
C17_RoundTrip ==
    (result.op = "round_trip" /\ \A i \in 1..Len(result.arg) :
                                     result.arg[i] /= EOT)
    => /\ result.out.res = "Ok"
       /\ result.out.text = WithoutCRLF(result.arg)

C17_Witness ==
    /\ result.op = "round_trip"
    /\ EndsWithCRLF(result.arg)
    /\ EndsWithCRLF(result.out.text)

\* C18: make_request fails with InvalidRequest exactly when the text has a
\* terminator byte somewhere, and then write_request writes nothing; on
\* success what is written is the text, "\r\n" unless the text ends with
\* it, and one terminator byte.
C18_MakeRequest ==
    (result.op = "write_request")
    => LET t == result.arg
           o == result.out
       IN  /\ (o.res = "InvalidRequest") <=> (\E i \in 1..Len(t) : t[i] = EOT)
           /\ (o.res /= "InvalidRequest") => o.res = "Ok"
           /\ (o.res = "InvalidRequest") => o.writer = <<>>
           /\ (o.res = "Ok") =>
                 /\ o.writer = t \o (IF EndsWithCRLF(t) THEN <<>> ELSE CRLF)
                                 \o <<EOT>>
                 /\ Cardinality({ i \in 1..Len(o.writer) :
                                    o.writer[i] = EOT }) = 1

C18_Witness ==
    /\ result.op = "write_request"
    /\ result.out.res = "InvalidRequest"
    /\ Len(result.arg) >= 2
    /\ result.arg[1] = EOT
    /\ result.arg[Len(result.arg)] /= EOT

\* C19: read_response and read_request_bytes both take the terminator off
\* only when the bytes read end with it: bytes read without a terminator
\* are returned whole, and nothing read gives the empty text.
C19_TerminatorOnlyStripped ==
    LET s == result.arg
        \* what one frame read takes from the stream: the bytes up to and
        \* including the first terminator, all of them if there is none
        read == IF \E i \in 1..Len(s) : s[i] = EOT
                THEN SubSeq(s, 1, CHOOSE i \in 1..Len(s) :
                            s[i] = EOT /\ \A j \in 1..(i - 1) : s[j] /= EOT)
                ELSE s
        payload == IF read /= <<>> /\ read[Len(read)] = EOT
                   THEN SubSeq(read, 1, Len(read) - 1)
                   ELSE read
    IN  /\ (result.op = "read_response" /\ from_utf8_ok(payload))
           => /\ result.out.res = "Ok"
              /\ result.out.text = WithoutCRLF(payload)
        /\ (result.op = "read_request_bytes")
           => result.out = payload

\* The quotes of `s` pair up from the left: first with second, third with
\* fourth; a last quote without partner opens nothing.
QuotesBefore(s, i) == Cardinality({ j \in 1..(i - 1) : s[j] = Quote })

OpensSpan(s, i) ==
    /\ s[i] = Quote
    /\ QuotesBefore(s, i) % 2 = 0
    /\ \E j \in (i + 1)..Len(s) : s[j] = Quote

\* Position i is outside every quoted span and holds neither whitespace
\* nor a quote.
InRun(s, i) ==
    /\ s[i] \notin Whitespace
    /\ s[i] /= Quote
    /\ (QuotesBefore(s, i) % 2 = 0 \/ \A j \in i..Len(s) : s[j] /= Quote)

\* The runs and the contents of the quoted spans of `s`, from left to
\* right.
SpanTokens(s) ==
    LET SpanEnd(i) ==
            CHOOSE j \in (i + 1)..Len(s) :
                s[j] = Quote /\ QuotesBefore(s, j) = QuotesBefore(s, i) + 1
        StartsRun(i) == InRun(s, i) /\ (i = 1 \/ ~ InRun(s, i - 1))
        RunEnd(i) ==
            CHOOSE j \in i..Len(s) :
                /\ \A k \in i..j : InRun(s, k)
                /\ (j = Len(s) \/ ~ InRun(s, j + 1))
        TokenAt(i) ==
            IF OpensSpan(s, i) THEN SubSeq(s, i + 1, SpanEnd(i) - 1)
            ELSE SubSeq(s, i, RunEnd(i))
        starts == { i \in 1..Len(s) : OpensSpan(s, i) \/ StartsRun(i) }
        nth(k) == CHOOSE i \in starts :
                      Cardinality({ j \in starts : j < i }) = k - 1
    IN  [k \in 1..Cardinality(starts) |-> TokenAt(nth(k))]

\* C16: a request without a token, such as an empty one or one of
\* whitespace only, is answered with NoCommandProvided; a request whose
\* first token is not a registered command is answered with
\* UndefinedCommand carrying that token; neither changes the session or
\* the storage.
C16_DispatchErrors ==
    (result.op = "dispatch")
    => LET request == result.arg
           tokens == SpanTokens(request)
           o == result.out
       IN  /\ (\A i \in 1..Len(request) : request[i] \in Whitespace)
              => o.res = "NoCommandProvided"
           /\ (tokens = <<>>) => o.res = "NoCommandProvided"
           /\ (tokens /= <<>> /\ tokens[1] \notin Commands)
              => o.res = "UndefinedCommand" /\ o.command = tokens[1]
           /\ (tokens = <<>> \/ tokens[1] \notin Commands)
              => o.session = session[W] /\ o.st = Storage

C16_Witness ==
    /\ result.op = "dispatch"
    /\ result.out.res = "UndefinedCommand"
    /\ result.arg[1] = Quote
    /\ \E i \in 1..Len(result.out.command) :
          result.out.command[i] \in Whitespace

\* C20: the tokens of a request are its maximal runs of non-whitespace
\* non-quote characters and the contents of its double-quoted spans, from
\* left to right; `cmd "a b" c` gives cmd, a b, c; dispatch takes the
\* first token as the command and hands the others to the handler in
\* order.
C20_Tokens ==
    /\ (result.op = "tokenize")
       => /\ result.out = SpanTokens(result.arg)
          /\ (result.arg = ExampleRequest)
             => result.out = << <<"c", "m", "d">>, <<"a", " ", "b">>,
                                <<"c">> >>
    /\ (result.op = "dispatch")
       => LET tokens == SpanTokens(result.arg)
          IN  /\ (tokens /= <<>> /\ tokens[1] = REGISTER)
                 => result.out
                    = DispatchOut(register(Storage, poisoned, session[W],
                                           Tail(tokens)), REGISTER)
              /\ (tokens /= <<>> /\ tokens[1] \notin Commands)
                 => result.out.command = tokens[1]

C20_Witness ==
    /\ result.op = "tokenize"
    /\ result.arg = ExampleRequest
    /\ Len(result.out) = 3

\* The server took a request off the connection in this step.
ServerRead == Len(net_in') < Len(net_in)

\* A step of the loop of handle_requests, as opposed to one of the peer.
LoopStep ==
    /\ pc[W] = "serving"
    /\ (ServerRead \/ result' /= result \/ pc'[W] /= pc[W])

\* The request of the last pass of the loop was `quit`.
ServedQuit(r) ==
    /\ r.op = "serve"
    /\ from_utf8_ok(r.arg)
    /\ Tokenize(trim(r.arg)) /= <<>>
    /\ Tokenize(trim(r.arg))[1] = QUIT

\* C13: the pass of the loop in which quit ends the session writes the Ok
\* response of that request and leaves the loop; afterwards the server
\* takes nothing more off the connection, dispatches nothing and writes
\* nothing.
C13_QuitLeavesLoop ==
    [][ /\ (LoopStep /\ ServedQuit(result') /\ result'.out.res = "Ok")
           => /\ result'.out.bytes = <<"O", "k", "\r", "\n", EOT>>
              /\ peer.open => net_out' = net_out \o result'.out.bytes
              /\ pc'[W] = "closed"
              /\ session'[W].state \in {"Ended", "Dropped"}
        /\ (pc[W] = "closed")
           => /\ pc'[W] = "closed"
              /\ ~ ServerRead
              /\ result' = result
              /\ session' = session
              /\ Len(net_out') <= Len(net_out) ]_vars

C13_Witness ==
    /\ pc[W] = "closed"
    /\ session[W].state = "Ended"
    /\ ServedQuit(result)
    /\ Frames(net_in) >= 1

\* C14: the first bytes the server writes on a connection are one framed
\* message with its public key, and it reads no request before; the
\* client sends nothing before it has read that message and parsed it as
\* the key of the server.
C14_KeyFirst ==
    /\ [](/\ (pc[W] = "accepted")
             => text = <<>> /\ result = NoResult /\ net_out = <<>>
          /\ (pc[W] /= "accepted")
             => /\ text = <<"1", ":", "1", "\r", "\n", EOT>>
                /\ read_response(text) = [res |-> "Ok", text |-> PubKey]
          /\ (peer.kind = "client" /\ ~ peer.connected) => net_in = <<>>
          /\ (peer.kind = "client" /\ peer.connected) => peer.key = PubKey)
    /\ [][ /\ (pc[W] = "accepted" /\ pc'[W] /= "accepted")
              => /\ ~ ServerRead
                 /\ peer.open => net_out' = text'
           /\ (peer.kind = "client" /\ Len(net_in') > Len(net_in))
              => peer.connected ]_vars

C14_Witness ==
    /\ peer.kind = "client"
    /\ peer.connected
    /\ peer.key = PubKey
    /\ result.op = "serve"
    /\ result.out.res = "Ok"

\* C15: every pass of the loop that reads a request writes one response
\* for it, which starts with "Error: " unless the request succeeded, and
\* the loop goes on to the next request unless the session is Ended or
\* the read or the write on the connection failed.
C15_OneResponsePerRequest ==
    [][ LoopStep
        => /\ result'.op = "serve"
           /\ \/ /\ result'.out.res = "Io"
                 /\ ~ ServerRead
              \/ /\ Frames(result'.out.bytes) = 1
                 /\ result'.out.bytes[Len(result'.out.bytes)] = EOT
                 /\ peer.open => net_out' = net_out \o result'.out.bytes
                 /\ (result'.out.res /= "Ok")
                    => starts_with(result'.out.bytes, ErrorPrefix)
           /\ \/ pc'[W] = "serving"
              \/ session'[W].state = "Ended"
              \/ result'.out.res = "Io"
              \/ (result'.out.res /= "panic" /\ ~ result'.out.written) ]_vars

\* C21: is_safe_for_filename accepts exactly the names that are not empty,
\* have 32 characters at most, are made of ASCII letters, digits, '.',
\* '@' and '_' only, have an ASCII letter, have no "..", and have none of
\* '.', '@', '_' as first or last character.
C21_SafeNames ==
    (result.op = "is_safe_for_filename")
    => LET name == result.arg
           n == Len(name)
           Special == {".", "@", "_"}
       IN  result.out
           <=> /\ n >= 1
               /\ n <= 32
               /\ { name[i] : i \in 1..n }
                    \subseteq (AsciiAlphabetic \cup AsciiDigit \cup Special)
               /\ { name[i] : i \in 1..n } \cap AsciiAlphabetic /= {}
               /\ ~ \E i \in 1..(n - 1) : <<name[i], name[i + 1]>> = <<".", ".">>
               /\ name[1] \notin Special
               /\ name[n] \notin Special

C21_Witness ==
    /\ result.op = "is_safe_for_filename"
    /\ Len(result.arg) = 33
    /\ result.arg[1] = "a"
    /\ result.arg[33] = "1"
    /\ ~ result.out

\* C22: the storage is only ever reached with names that pass
\* is_safe_for_filename, never with the empty username: every username
\* that has an entry in username_to_user_storage or a directory, every
\* username a session holds a handle for, and every resource name of a
\* record file passes it.
C22_OnlySafeNamesReachStorage ==
    /\ \A u \in CacheKeys :
          (username_to_user_storage[u] /= NoStore \/ u \in dirs)
          => is_safe_for_filename(u)
    /\ \A c \in Conns :
          (session[c].state = "Authorized")
          => is_safe_for_filename(session[c].username)
    /\ \A u \in CacheKeys :
          \A resource \in files[u] : is_safe_for_filename(resource)

\* C23: register with a valid username that has no account and a valid
\* key returns Ok and creates the account; with a username that has an
\* account it fails with UserAlreadyExists and changes nothing in the
\* storage; the session of the caller is the same afterwards in both
\* cases.
C23_Register ==
    \A c \in Conns : \A u \in UserNames :
        (pc[c] = "serving") =>
          LET o == register(Storage, poisoned, session[c], <<u, KeyToken>>)
          IN  /\ (u \notin dirs) => o.res = "Ok" /\ u \in o.st.dirs
              /\ (u \in dirs)
                 => o.res = "UserAlreadyExists" /\ o.st = Storage
              /\ o.session = session[c]

\* C24: a record with a safe resource name, no newline in the password and
\* neither a double quote nor a terminator byte in password and notes,
\* that add_record added with success, is returned by get_record for that
\* resource as it was added.
C24_RecordRoundTrip ==
    (result.op = "add_get")
    => LET r == result.arg
           NoneOf(s, chars) == \A i \in 1..Len(s) : s[i] \notin chars
       IN  (/\ is_safe_for_filename(r.resource)
            /\ NoneOf(r.password, {"\n", Quote, EOT})
            /\ NoneOf(r.notes, {Quote, EOT})
            /\ result.out.add = "Ok")
           => /\ result.out.get.res = "Ok"
              /\ result.out.get.record = r

\* C25: list_records answers with the names of the user's records joined
\* by newlines, the empty string if there are none; get_records_list
\* returns just these names, the empty list if there are none.
C25_RecordsList ==
    (result.op = "get_records_list")
    => LET names == result.arg
           o == result.out
       IN  /\ o.res = "Ok"
           /\ (names = {}) => o.body = <<>> /\ o.list = <<>>
           /\ { o.list[i] : i \in 1..Len(o.list) } = names
           /\ Len(o.list) = Cardinality(names)
           /\ o.body = to_string_with_delimiter(o.list)

\* C26: confirm_login on an Unauthorized session with a pending challenge
\* fails with EmptyConfirmationString and leaves the session as it was,
\* whether its argument is missing or is the empty string.
C26_EmptyConfirmation ==
    \A c \in Conns : \A args \in { <<>>, <<EmptyString>> } :
        ( /\ pc[c] = "serving"
          /\ session[c].state = "Unauthorized"
          /\ session[c].login_confirmation /= EmptyString )
        => LET o == confirm_login(Storage, poisoned, session, c, args)
           IN  /\ o.res = "EmptyConfirmationString"
               /\ o.session = session[c]
               /\ o.st = Storage

\* C27: when the argument of confirm_login matches the challenge and
\* get_user_storage fails, confirm_login returns the storage error and
\* leaves the session as it was, Unauthorized and without a handle, and the
\* map of stores as it was.
C27_FailedHandleKeepsSession ==
    \A c \in Conns : \A raw \in ArgLists :
        LET args == Stripped(raw)
            s == session[c]
        IN  ( /\ pc[c] = "serving"
              /\ s.state = "Unauthorized"
              /\ ~ poisoned
              /\ Len(args) = 1
              /\ Decrypt("sec_key", args[1]) = s.login_confirmation
              /\ get_user_storage(Storage, session, s.username).res /= "Ok" )
            => LET o == confirm_login(Storage, poisoned, session, c, args)
               IN  /\ o.res = "UserDoesNotExist"
                   /\ o.session = s
                   /\ o.session.state = "Unauthorized"
                   /\ o.session.user_storage = NoStore
                   /\ o.st = Storage

\* A challenge is pending for an account that was deleted after login.
C27_Witness ==
    \E c \in Conns :
        /\ pc[c] = "serving"
        /\ session[c].state = "Unauthorized"
        /\ ~ poisoned
        /\ session[c].username = <<"a">>
        /\ session[c].login_confirmation \in RandStrings
        /\ <<"a">> \notin dirs
        /\ root

\* C28: the client's login hands `login <username>` to the connector first;
\* if the response starts with Error it sends nothing more and fails;
\* otherwise it sends exactly one `confirm_login <r>`, r being the challenge
\* decrypted with the client's secret key and encrypted with the server's
\* public key; it returns an Authorized session exactly if the second
\* response is Ok, and on every failure the Unauthorized session it was
\* called on, inside the error.
C28_ClientLogin ==
    (result.op = "login")
    => LET a == result.arg
           o == result.out
           sent == o.session.sent
           first_received == a.fail \notin {"send1", "recv1"}
           second_received ==
               /\ a.fail = "none"
               /\ ~ starts_with(a.r1, ErrorWord)
       IN  /\ Len(sent) >= 1
           /\ sent[1] = LOGIN \o <<" ">> \o a.username
           /\ (first_received /\ starts_with(a.r1, ErrorWord))
              => Len(sent) = 1 /\ o.res /= "Ok"
           /\ (first_received /\ ~ starts_with(a.r1, ErrorWord))
              => /\ Len(sent) = 2
                 /\ sent[2] = CONFIRM_LOGIN \o <<" ">> \o CorrectResponse(a.r1)
           /\ (o.session.state = "Authorized")
              <=> (second_received /\ a.r2 = OkText)
           /\ (o.res = "Ok") <=> (o.session.state = "Authorized")
           /\ (o.res /= "Ok")
              => /\ o.session.state = "Unauthorized"
                 /\ o.session.server_pub_key = "server_pub_key"

C28_Witness ==
    /\ result.op = "login"
    /\ result.arg.fail = "none"
    /\ result.arg.r1 = <<"a", "b">>
    /\ result.out.session.state = "Authorized"
    /\ Len(result.out.session.sent) = 2

\* C29: whatever the order in which the delete_me calls of sessions
\* Authorized as the same user run, each call completes without panicking
\* and leaves its session Unauthorized, having returned Ok, or Authorized
\* with a store of an existing user, having returned an error; and no two
\* calls pending together both return Ok.
C29_ConcurrentDeleteMe ==
    [][ \A c \in Conns :
          (DeleteMeLocked(c) /\ dm_username[c] \in UserNames)
          => LET o == delete_me_locked(Storage, poisoned, session, c,
                                       dm_username[c])
             IN  /\ o.res /= "panic"
                 /\ pc'[c] = "serving"
                 /\ (o.res = "Ok") => session'[c] = DefaultUnauthorized
                 /\ (o.res /= "Ok")
                    => /\ session'[c].state = "Authorized"
                       /\ session'[c].username = dm_username[c]
                       /\ session'[c].user_storage
                            = username_to_user_storage'[dm_username[c]]
                       /\ dm_username[c] \in dirs'
                 /\ \A c2 \in Conns \ {c} :
                       ( /\ pc[c2] = "delete_me"
                         /\ dm_username[c2] = dm_username[c]
                         /\ o.res = "Ok" )
                       => delete_me_locked(o.st, poisoned', session', c2,
                                           dm_username[c2]).res
                            \notin {"Ok", "panic"} ]_vars

\* C30: when delete_user fails inside delete_me and get_user_storage for the
\* same username fails after it, delete_me returns nothing: the handler
\* panics holding the storage write lock, which ends the connection's
\* thread and leaves the lock poisoned.
C30_DoubleFailurePanics ==
    [][ \A c \in Conns :
          LET u == dm_username[c]
              d == delete_user(Storage, session, u)
          IN  ( /\ DeleteMeLocked(c)
                /\ ~ poisoned
                /\ d.res /= "Ok"
                /\ get_user_storage(d.st, session, u).res /= "Ok" )
              => /\ delete_me_locked(Storage, poisoned, session, c, u).res
                      = "panic"
                 /\ pc'[c] = "panicked"
                 /\ session'[c] = DroppedSession
                 /\ poisoned' ]_vars

\* A delete_me has reset its session and waits for the lock, the lock is
\* intact, and the user's directory is gone.
C30_Witness ==
    \E c \in Conns :
        /\ pc[c] = "delete_me"
        /\ ~ poisoned
        /\ dm_username[c] \in UserNames
        /\ delete_user(Storage, session, dm_username[c]).res /= "Ok"
        /\ get_user_storage(Storage, session, dm_username[c]).res /= "Ok"

\* C31: between requests the strong handles to a user's store are as many
\* as the sessions Authorized as that user: every Authorized session holds
\* one handle, to the store the map has for its username, and a session
\* that is not Authorized holds none.
C31_HandlesMatchSessions ==
    (\A c \in Conns : pc[c] /= "delete_me")
    => /\ \A c \in Conns :
             IF session[c].state = "Authorized"
             THEN /\ session[c].user_storage \in StoreIds
                  /\ session[c].user_storage
                       = username_to_user_storage[session[c].username]
             ELSE session[c].user_storage = NoStore
       /\ \A u \in CacheKeys :
             StrongCount(session, username_to_user_storage[u])
               = Cardinality({ c \in Conns :
                                 /\ session[c].state = "Authorized"
                                 /\ session[c].username = u })

\* No request is being served and two sessions hold the store of a.
C31_Witness ==
    /\ \A c \in Conns : pc[c] = "serving"
    /\ StrongCount(session, username_to_user_storage[<<"a">>]) = 2
    /\ \A c \in Conns : session[c].username = <<"a">>

\* C32: once the client has closed its connection, with or without a quit,
\* the loop of the connection ends and its session is dropped with the
\* handle it held, so that delete_user is not refused on its account.
C32_ClosedConnectionEnds ==
    (~ peer.open)
    ~> ( /\ pc[W] \in {"closed", "panicked"}
         /\ session[W].state \in {"Dropped", "Ended"}
         /\ session[W].user_storage = NoStore
         /\ \A u \in CacheKeys :
               /\ StrongCount(session, username_to_user_storage[u]) = 0
               /\ delete_user(Storage, session, u).res
                    /= "UnsupportedActionForMultiSession" )

\* The loop was left on a failed write of the answer to the empty request
\* read at the end of the stream, and the last handle of a was dropped.
C32_Witness ==
    /\ ~ peer.open
    /\ pc[W] = "closed"
    /\ result.op = "serve"
    /\ result.arg = <<>>
    /\ ~ result.out.written
    /\ username_to_user_storage[<<"a">>] = Dead

\* C33: confirm_login on a session that is Authorized or Ended fails with
\* UnacceptableRequestAtThisState, and after the call the session is
\* Unauthorized.
C33_WrongStateResetsSession ==
    \A c \in Conns : \A raw \in ArgLists :
        ( /\ pc[c] = "serving"
          /\ session[c].state \in {"Authorized", "Ended"} )
        => LET o == confirm_login(Storage, poisoned, session, c, Stripped(raw))
           IN  /\ o.res = "UnacceptableRequestAtThisState"
               /\ o.session.state = "Unauthorized"

\* C34: when the client's Connector is dropped, a framed quit request is
\* written to the connection before it is closed.
C34_DropSendsQuit ==
    [][ ( /\ peer.kind = "client"
          /\ peer.connected
          /\ peer.open
          /\ ~ peer'.open )
        => net_in' = net_in \o make_request(QUIT).bytes ]_vars

\* C35: after a handler on one connection has failed or panicked, the
\* storage lock is not poisoned, and register, login, confirm_login and
\* delete_me on every other connection still return a response.
C35_FailureStaysLocal ==
    /\ ~ poisoned
    /\ \A c \in Conns :
          (pc[c] = "serving")
          => /\ \A raw \in ArgLists, rand_string \in RandStrings :
                   /\ register(Storage, poisoned, session[c],
                               Stripped(raw)).res /= "panic"
                   /\ login(Storage, poisoned, session[c], Stripped(raw),
                            rand_string).res /= "panic"
                   /\ confirm_login(Storage, poisoned, session, c,
                                    Stripped(raw)).res /= "panic"
             /\ (session[c].state = "Authorized")
                => delete_me_locked(Storage, poisoned,
                                    [session EXCEPT ![c] = DefaultUnauthorized],
                                    c, session[c].username).res /= "panic"

\* C36: accepted new_record, show_record and delete_record requests never
\* read, overwrite or delete key.pub of the account, so that login as the
\* registered user still gets its public key.
C36_RecordsLeaveKey ==
    /\ PUB_KEY_FILENAME \in files[<<"a">>]
    /\ text = strip_quotes(KeyToken)
    /\ get_user_pub_key_from_file(Storage, <<"a">>, text) = "Ok"
    /\ (result.op \in {"new_record", "show_record", "delete_record"}
        /\ result.out = "Ok")
       => result.arg /= PUB_KEY_FILENAME

\* C37: a successful login on a session with a pending challenge replaces
\* the session: only the later login's username and challenge are kept,
\* confirm_login with the response to the earlier challenge (another string
\* than the later one) fails and leaves the session, and a successful
\* confirm_login authorizes the session as the later login's username.
C37_LaterLoginReplaces ==
    [][ \A c \in Conns : \A raw1 \in ArgLists, rand_string \in RandStrings :
          LET earlier == session[c].login_confirmation
              l == login(Storage, poisoned, session[c], Stripped(raw1),
                         rand_string)
          IN  ( /\ pc[c] = "serving"
                /\ session[c].state = "Unauthorized"
                /\ earlier /= EmptyString
                /\ l.res = "Ok"
                /\ Serve(c, l)
                /\ UNCHANGED poisoned )
              => /\ session'[c] =
                       [state |-> "Unauthorized",
                        username |-> strip_quotes(raw1[1]),
                        login_confirmation
                          |-> Encrypt(strip_quotes(raw1[1]), rand_string),
                        user_storage |-> NoStore]
                 /\ \A raw \in ArgLists :
                       LET args == Stripped(raw)
                           o == confirm_login(Storage', poisoned', session',
                                              c, args)
                       IN  /\ ( /\ Len(args) = 1
                                /\ args[1] = CorrectResponse(earlier)
                                /\ earlier /= Encrypt(strip_quotes(raw1[1]),
                                                      rand_string) )
                              => /\ o.res = "InvalidConfirmationString"
                                 /\ o.session = session'[c]
                           /\ (o.res = "Ok")
                              => /\ o.session.state = "Authorized"
                                 /\ o.session.username
                                      = strip_quotes(raw1[1]) ]_vars

\* A challenge for a is pending and a login as b with another random string
\* would succeed.
C37_Witness ==
    \E c \in Conns :
        /\ pc[c] = "serving"
        /\ session[c].state = "Unauthorized"
        /\ session[c].username = <<"a">>
        /\ session[c].login_confirmation = <<"a">>
        /\ login(Storage, poisoned, session[c], << <<"b">> >>, <<"b">>).res
             = "Ok"

\* C38: after every completed client operation the client holds an
\* Authorized session exactly when the server's session of the connection
\* is Authorized.
C38_SessionsAgree ==
    (peer.op = "idle" /\ result.op /= "none")
    => ((peer.session = "Authorized") <=> (session[W].state = "Authorized"))

\* C39: the handlers take the dispatcher lock, the storage lock and a
\* store's lock in no conflicting order, so that every dispatched request
\* eventually returns.
C39_RequestsReturn ==
    \A c \in Conns :
        (pc[c] \notin {"serving", "panicked"}) ~> (pc[c] = "serving")

\* C40: each connection has its own session.  A request served on one
\* connection leaves the session of every other connection as it was.  The
\* response to a challenge that login issued on one connection confirms
\* nothing on a connection whose session does not hold that very challenge,
\* and where it is accepted the session becomes Authorized under the name
\* of its own login.  The record commands of a session Authorized as one
\* user leave the records of every other user as they were, and what they
\* answer does not depend on them.
C40_OwnSession ==
    [][ \A c \in Conns :
          LET others == CacheKeys \ {session[c].username}
              ServesRecord ==
                  \/ NewRecord(c)
                  \/ ShowRecord(c)
                  \/ ListRecords(c)
                  \/ DeleteRecord(c)
              ServesRequest ==
                  \/ Register(c)
                  \/ Login(c)
                  \/ ConfirmLogin(c)
                  \/ DeleteMeBegin(c)
                  \/ DeleteMeLocked(c)
                  \/ Quit(c)
                  \/ ServesRecord
              Emptied == [Storage EXCEPT !.files =
                            [d \in CacheKeys |->
                                IF d \in others THEN {} ELSE @[d]]]
          IN  /\ (\E c2 \in Conns \ {c} : session'[c2] /= session[c2])
                    => ~ ServesRequest
              /\ (Holds(c) /\ \E u \in others : files'[u] /= files[u])
                    => ~ ServesRecord
              /\ (Holds(c) /\ pc[c] = "serving") =>
                    /\ \A raw \in RecordArgLists :
                          show_record(Emptied, session[c], Stripped(raw)).res
                             = show_record(Storage, session[c],
                                           Stripped(raw)).res
                    /\ list_records(Emptied, session[c]).res
                          = list_records(Storage, session[c]).res
              /\ \A c2 \in Conns \ {c} :
                    (/\ pc[c2] = "serving"
                     /\ session[c].state = "Unauthorized"
                     /\ session[c].login_confirmation /= EmptyString) =>
                       LET challenge == session[c].login_confirmation
                           o == confirm_login(Storage, poisoned, session, c2,
                                              <<CorrectResponse(challenge)>>)
                       IN  /\ (\/ session[c2].state /= "Unauthorized"
                               \/ session[c2].login_confirmation /= challenge)
                                 => (o.res /= "Ok" /\ o.session = session[c2])
                           /\ (o.res = "Ok") =>
                                 o.session.username = session[c2].username
      ]_vars

\* A session with a pending challenge for one user next to a session
\* Authorized as another user, both users with records.
C40_Witness ==
    \E c, c2 \in Conns :
        /\ c /= c2
        /\ pc[c] = "serving" /\ pc[c2] = "serving"
        /\ session[c].state = "Unauthorized"
        /\ session[c].login_confirmation /= EmptyString
        /\ Holds(c2)
        /\ session[c2].username /= session[c].username
        /\ files[session[c].username] /= {}
        /\ files[session[c2].username] /= {}
====
